---- MODULE Spec2Model ----
(***************************************************************************)
(* State-machine model of the SharePoint gateway service                   *)
(* (src/services/sharepoint.service.js and its controllers).               *)
(*                                                                         *)
(* The service runs on a single-threaded event loop: the code between two  *)
(* network awaits runs atomically.  One action of the model is therefore   *)
(* one such run: the start of a gateway call up to its first network       *)
(* request, or the arrival of a response up to the next request or the     *)
(* end of the call.  The remote ends (token endpoint, SharePoint) answer   *)
(* in steps of their own, so that requests overlap and a response may      *)
(* travel for a while.                                                     *)
(*                                                                         *)
(* Time is kept relative: a cache entry carries the seconds it has left    *)
(* (node-cache keeps the absolute expiry t = now + ttl and compares it     *)
(* with Date.now(); "left" is t - now), a token carries its age.           *)
(***************************************************************************)
EXTENDS Integers, Sequences, FiniteSets, TLC

VARIABLES
  tokenCache,   \* the NodeCache holding "access_token": key -> [v, left]
  dataCache,    \* the NodeCache holding read responses: key -> [v, left]
  calls,        \* the gateway calls: slot -> call record
  tokens,       \* tokens issued by the token endpoint: id -> [age, sleft];
                \* sleft: seconds left of the TTL counted from the moment the
                \* token was stored (-1: never stored, elapsed or flushed)
  upVer,        \* version of the upstream (SharePoint) content
  lastDone,     \* token carried by the refresh that completed last (0: none)
  ticks,        \* how many times time has advanced
  flushes       \* how many times clearCache has run

vars == <<tokenCache, dataCache, calls, tokens, upVer, lastDone, ticks,
          flushes>>

----------------------------------------------------------------------------
(* Bounds of the model *)

MaxCalls == 3

MaxVersion == 1

MaxTicks == 2

MaxFlushes == 1

MaxOverlap == 2

MaxWrites == 1

(* Program constants *)

tokenTTL == 3500

dataTTL == 300

TokenLifetime == 3600

(* Time advances in steps of one data TTL; in a quiet period, when no call *)
(* is waiting for the network, also by one token TTL.                      *)
TickSteps == {dataTTL, tokenTTL}

Slots == 1..MaxCalls

----------------------------------------------------------------------------
(* node-cache: get / set / del / flushAll *)

EmptyCache == [k \in {} |-> k]

NodeCacheHas(cache, key) == key \in DOMAIN cache

NodeCacheGet(cache, key) == cache[key].v

NodeCacheSet(cache, key, val, ttl) ==
  [k \in (DOMAIN cache) \cup {key} |->
     IF k = key THEN [v |-> val, left |-> ttl, pre |-> {}] ELSE cache[k]]

NodeCacheDel(cache, key) == [k \in (DOMAIN cache) \ {key} |-> cache[k]]

NodeCacheAfterEager(cache, d) ==
  [k \in {x \in DOMAIN cache : cache[x].left - d > 0} |->
     [cache[k] EXCEPT !.left = @ - d]]

(* An entry is expired when its expiry time lies before now (t < now). *)
NodeCacheAfter(cache, d) ==
  [k \in {x \in DOMAIN cache : cache[x].left - d >= 0} |->
     [cache[k] EXCEPT !.left = @ - d]]

----------------------------------------------------------------------------
(* Arguments of a service call, as the controllers resolve them.  An       *)
(* absent option is "" or 0: the code tests options by truthiness.         *)

NoOpts == [filter |-> "", select |-> "", expand |-> "", top |-> 0,
           skip |-> 0, orderby |-> ""]

(* The criteria record of searchMultiCriteria; an absent field is "" *)
NoCriteria == [fileName |-> "", fileType |-> "", author |-> "", editor |-> "",
               folderPath |-> "", startDate |-> "", endDate |-> "",
               keyword |-> "", orderby |-> ""]

(* The HTTP request a controller works for: its route, the X-API-Key and   *)
(* Authorization headers ("" when absent), the parameter the route reads   *)
(* from the path or the query string ("" when absent) and the number of    *)
(* keys of the JSON body                                                   *)
NoReq == [route |-> "", xApiKey |-> "", authorization |-> "", param |-> "",
          body |-> 0]

(* query, now and intent are those of a smartSearch call: the lowercased    *)
(* query, the year of the server clock and the detected intent; req is the *)
(* HTTP request the call serves                                            *)
NoArgs == [list |-> "", item |-> 0, path |-> "", opts |-> NoOpts,
           criteria |-> NoCriteria, query |-> "", now |-> 0,
           intent |-> [type |-> ""], req |-> NoReq]

RECURSIVE JoinWith(_, _)

JoinWithOr(parts, sep) ==
  IF parts = << >> THEN ""
  ELSE IF Len(parts) = 1 THEN parts[1]
  ELSE parts[1] \o " or " \o JoinWith(Tail(parts), sep)

JoinWith(parts, sep) ==
  IF parts = << >> THEN ""
  ELSE IF Len(parts) = 1 THEN parts[1]
  ELSE parts[1] \o sep \o JoinWith(Tail(parts), sep)

(* params.push(...) for each truthy option, in the order of the code *)
Param(name, value) == IF value = "" THEN << >> ELSE << name \o "=" \o value >>

NumParam(name, n) == IF n = 0 THEN << >> ELSE << name \o "=" \o ToString(n) >>

ListByTitleEndpoint(listTitle) ==
  "/_api/web/lists/getbytitle('" \o listTitle \o "')"

ItemEndpoint(listTitle, itemId) ==
  ListByTitleEndpoint(listTitle) \o "/items(" \o ToString(itemId) \o ")"

getListItemsEndpoint(listTitle, o) ==
  LET params == Param("$filter", o.filter) \o Param("$select", o.select)
                \o NumParam("$top", o.top) \o NumParam("$skip", o.skip)
                \o Param("$orderby", o.orderby)
  IN ListByTitleEndpoint(listTitle) \o "/items"
     \o (IF Len(params) > 0 THEN "?" \o JoinWith(params, "&") ELSE "")

defaultExpand == "File,Folder,Author,Editor"

defaultSelect == "Id,Title,FileLeafRef,FileRef,FileDirRef,File/Name,File/ServerRelativeUrl,File/TimeLastModified,File/Length,Author/Title,Editor/Title,Modified,Created"

getAllFilesEndpoint(libraryName, o) ==
  LET params ==
        << "$expand=" \o (IF o.expand = "" THEN defaultExpand ELSE o.expand) >>
        \o << "$select=" \o (IF o.select = "" THEN defaultSelect ELSE o.select) >>
        \o Param("$filter", o.filter) \o NumParam("$top", o.top)
        \o Param("$orderby", o.orderby)
  IN ListByTitleEndpoint(libraryName) \o "/items?" \o JoinWith(params, "&")

(* criteria.fileType.replace(/^\./, '') *)
StripDot(s) ==
  IF Len(s) > 0 /\ SubSeq(s, 1, 1) = "." THEN SubSeq(s, 2, Len(s)) ELSE s

(* filters.push(...) for each truthy field of the criteria *)
Pushed(value, clause) == IF value = "" THEN << >> ELSE << clause >>

searchMultiCriteriaFilters(criteria) ==
  Pushed(criteria.fileName,
         "substringof('" \o criteria.fileName \o "', FileLeafRef)")
  \o Pushed(criteria.fileType,
            "endswith(FileLeafRef, '." \o StripDot(criteria.fileType) \o "')")
  \o Pushed(criteria.author, "Author/Title eq '" \o criteria.author \o "'")
  \o Pushed(criteria.editor, "Editor/Title eq '" \o criteria.editor \o "'")
  \o Pushed(criteria.folderPath,
            "substringof('" \o criteria.folderPath \o "', FileDirRef)")
  \o Pushed(criteria.startDate,
            "Modified ge datetime'" \o criteria.startDate \o "'")
  \o Pushed(criteria.endDate,
            "Modified le datetime'" \o criteria.endDate \o "'")
  \o Pushed(criteria.keyword,
            "(substringof('" \o criteria.keyword \o "', FileLeafRef) or substringof('"
            \o criteria.keyword \o "', Title))")

(* searchMultiCriteria: the arguments of the getAllFiles call it makes *)
searchMultiCriteria(criteria, libraryName) ==
  [NoArgs EXCEPT
     !.list = libraryName,
     !.criteria = criteria,
     !.opts = [NoOpts EXCEPT
                 !.filter = JoinWith(searchMultiCriteriaFilters(criteria), " and "),
                 !.top = 500,
                 !.orderby = IF criteria.orderby = "" THEN "Modified desc"
                             ELSE criteria.orderby]]

(* The endpoint a cached read requests on a miss *)
Endpoint(rop, a) ==
  CASE rop = "getLists" -> "/_api/web/lists"
    [] rop = "getListByTitle" -> ListByTitleEndpoint(a.list)
    [] rop = "getFolders" -> ListByTitleEndpoint(a.list) \o "/folders"
    [] rop = "getFolderContents" ->
         "/_api/web/GetFolderByServerRelativeUrl('" \o a.path
         \o "')?$expand=Folders,Files"
    [] rop = "getAllFiles" -> getAllFilesEndpoint(a.list, a.opts)
    [] rop = "getListItems" -> getListItemsEndpoint(a.list, a.opts)
    [] rop = "getItemById" -> ItemEndpoint(a.list, a.item)

(* The cache key of a cached read *)
cacheKey(rop, a) ==
  CASE rop = "getLists" -> "all_lists"
    [] rop = "getListByTitle" -> "list_" \o a.list
    [] rop = "getFolders" -> "folders_" \o a.list
    [] rop = "getFolderContents" -> "folder_contents_" \o a.path
    [] rop = "getAllFiles" ->
         "all_files_" \o a.list \o "_" \o getAllFilesEndpoint(a.list, a.opts)
    [] rop = "getListItems" ->
         "items_" \o a.list \o "_" \o getListItemsEndpoint(a.list, a.opts)
    [] rop = "getItemById" -> "item_" \o a.list \o "_" \o ToString(a.item)

ReadOps == {"getLists", "getListByTitle", "getFolders", "getFolderContents",
            "getAllFiles", "getListItems", "getItemById"}

WriteOps == {"createItem", "updateItem", "deleteItem"}

(* The keys a write deletes after its write request has succeeded *)
ItemKey(a) == "item_" \o a.list \o "_" \o ToString(a.item)

GlobbedKey(a) == cacheKey("getListItems", [a EXCEPT !.opts.top = 5])

WildcardKey(a) == "items_" \o a.list \o "_*"

WildcardOnly(op, a) == << WildcardKey(a) >>

InvalidatedKeys(op, a) ==
  IF op = "createItem" THEN << WildcardKey(a) >>
  ELSE << ItemKey(a), WildcardKey(a) >>

----------------------------------------------------------------------------
(* Strings, as detectSearchIntent uses them *)

LowerCase == "abcdefghijklmnopqrstuvwxyz"

UpperCase == "ABCDEFGHIJKLMNOPQRSTUVWXYZ"

Letters == {SubSeq(LowerCase, i, i) : i \in 1..Len(LowerCase)}

Digits == <<"0", "1", "2", "3", "4", "5", "6", "7", "8", "9">>

CharAt(s, i) == SubSeq(s, i, i)

IsDigit(ch) == \E d \in 1..Len(Digits) : Digits[d] = ch

IsSpace(ch) == ch = " "

(* [a-z\s] *)
IsNameChar(ch) == ch \in Letters \/ IsSpace(ch)

(* \w *)
IsWordChar(ch) == ch \in Letters \/ IsDigit(ch) \/ ch = "_"

StartsAt(s, i, p) ==
  i + Len(p) - 1 <= Len(s) /\ SubSeq(s, i, i + Len(p) - 1) = p

(* String.prototype.includes *)
includes(s, p) == \E i \in 1..(Len(s) + 1) : StartsAt(s, i, p)

(* new RegExp('a|b|c', 'i').test(query), the alternatives being literals *)
TestAny(alts, s) == \E i \in 1..Len(alts) : includes(s, alts[i])

(* The end of the longest run of [a-z\s] that starts at i (i - 1 when the  *)
(* run is empty): a greedy [a-z\s]+                                        *)
RECURSIVE NameRunEnd(_, _)
NameRunEnd(s, i) ==
  IF i <= Len(s) /\ IsNameChar(CharAt(s, i)) THEN NameRunEnd(s, i + 1) ELSE i - 1

(* The same for a greedy \s+ *)
RECURSIVE SpaceRunEnd(_, _)
SpaceRunEnd(s, i) ==
  IF i <= Len(s) /\ IsSpace(CharAt(s, i)) THEN SpaceRunEnd(s, i + 1) ELSE i - 1

(* The same for a greedy \d+ *)
RECURSIVE DigitRunEnd(_, _)
DigitRunEnd(s, i) ==
  IF i <= Len(s) /\ IsDigit(CharAt(s, i)) THEN DigitRunEnd(s, i + 1) ELSE i - 1

(* String.prototype.trim *)
RECURSIVE trim(_)
trim(s) ==
  IF Len(s) > 0 /\ IsSpace(CharAt(s, 1)) THEN trim(SubSeq(s, 2, Len(s)))
  ELSE IF Len(s) > 0 /\ IsSpace(CharAt(s, Len(s))) THEN trim(SubSeq(s, 1, Len(s) - 1))
  ELSE s

DigitValue(ch) == (CHOOSE d \in 1..Len(Digits) : Digits[d] = ch) - 1

(* parseInt of a string of digits *)
RECURSIVE parseInt(_)
parseInt(s) ==
  IF Len(s) = 0 THEN 0
  ELSE 10 * parseInt(SubSeq(s, 1, Len(s) - 1)) + DigitValue(CharAt(s, Len(s)))

(* String.prototype.toLowerCase *)
RECURSIVE toLowerCase(_)
toLowerCase(s) ==
  IF Len(s) = 0 THEN ""
  ELSE LET ch == CharAt(s, 1)
           up == {i \in 1..Len(UpperCase) : SubSeq(UpperCase, i, i) = ch}
       IN (IF up = {} THEN ch
           ELSE LET i == CHOOSE x \in up : TRUE IN SubSeq(LowerCase, i, i))
          \o toLowerCase(SubSeq(s, 2, Len(s)))

(* The smallest element of a non-empty set of numbers *)
Least(S) == CHOOSE x \in S : \A y \in S : x <= y

----------------------------------------------------------------------------
(* The steps of each service operation between its network awaits.         *)
(*   token : await getAccessToken()                                        *)
(*   read  : a cached read (dataCache.get, makeRequest on a miss,          *)
(*           dataCache.set)                                                *)
(*   req   : an uncached makeRequest                                       *)
(*   inval : the dataCache.del calls after a write                         *)

Step(k, x) == [k |-> k, x |-> x]

Program(op) ==
  CASE op = "getToken" -> << Step("token", "") >>
    [] op = "validateToken" -> << Step("token", ""), Step("req", "web") >>
    [] op \in ReadOps -> << Step("read", op) >>
    [] op = "createItem" ->
         << Step("read", "getListByTitle"), Step("req", "contextinfo"),
            Step("req", "write"), Step("inval", "") >>
    [] op = "updateItem" ->
         << Step("read", "getListByTitle"), Step("read", "getItemById"),
            Step("req", "contextinfo"), Step("req", "write"),
            Step("inval", "") >>
    [] op = "deleteItem" ->
         << Step("read", "getItemById"), Step("req", "contextinfo"),
            Step("req", "write"), Step("inval", "") >>

(* The endpoint of the request a step sends *)
StepEndpoint(op, a, s) ==
  CASE s.k = "read" -> Endpoint(s.x, a)
    [] s.x = "contextinfo" -> "/_api/contextinfo"
    [] s.x = "web" -> "/_api/web"
    [] s.x = "write" ->
         IF op = "createItem" THEN ListByTitleEndpoint(a.list) \o "/items"
         ELSE ItemEndpoint(a.list, a.item)

----------------------------------------------------------------------------
(* Call records *)

(* A form digest: the answer to the seq-th data request of call by *)
NoDigest == [by |-> 0, seq |-> 0]

(* A response body: the endpoint it answers, the version of the upstream   *)
(* content it shows, the length of its d.results array and the             *)
(* FormDigestValue of a context information; noEtag when d.__metadata of   *)
(* an item has no etag                                                     *)
NoVal == [ep |-> "", ver |-> 0, n |-> 0, digest |-> NoDigest, noEtag |-> FALSE]

(* d.__metadata.etag of an item; "" is undefined *)
Etag(val) == IF val.noEtag THEN "" ELSE "\"" \o ToString(val.ver + 1) \o "\""

(* The locals etag and formDigestValue of a write operation *)
NoLocals == [etag |-> "", formDigestValue |-> NoDigest]

(* options.headers of a write; none when nothing was sent *)
NoHeaders == [digest |-> NoDigest, method |-> "", ifMatch |-> ""]

NoNet == [ok |-> FALSE, tok |-> 0, val |-> NoVal, status |-> 0]

NoErr == [thrown |-> FALSE, msg |-> "", status |-> 0]

NoHistory ==
  [nTok |-> 0,          \* token-endpoint requests this call has sent
   nData |-> 0,         \* data requests this call has sent
   tries |-> 0,         \* token requests of the current getAccessToken call
   dataAtTok |-> 0,     \* nData when the last token request was sent
   lastAtStart |-> 0,   \* token most recently stored when the call started
   owed |-> {},         \* tokens stored before the start, their TTL running
   fresh |-> TRUE,      \* the token returned was within its lifetime
   conc |-> {},         \* calls refreshing when this one sent its request
   after |-> {},        \* calls that had completed when this one started
   skey |-> "",         \* key under which this call stored a response last
   sleft |-> -1,        \* seconds left of the TTL counted from that store
                        \* (-1: none, elapsed, key deleted or cache flushed)
   stored |-> {},       \* completed calls whose store under the key of
                        \* this read was in force when it started
   hits |-> << >>,      \* cache entries that answered a read step
   miss |-> << >>,      \* keys of the read steps that missed
   order |-> << >>,     \* the steps of the operation, as they were begun
   sent |-> NoHeaders,  \* options.headers of the write request sent
   wrote |-> FALSE]     \* the write request was answered with success

IdleCall ==
  [op |-> "none", a |-> NoArgs, step |-> 0, pc |-> "idle", net |-> NoNet,
   tok |-> 0, retTok |-> 0, retVal |-> NoVal, err |-> NoErr, loc |-> NoLocals,
   h |-> NoHistory]

(* The state the synchronous code works on *)
Mem(cs, tc, dc) == [calls |-> cs, tc |-> tc, dc |-> dc]

CurStep(cl) == Program(cl.op)[cl.step]

Refreshing(cs) == {d \in DOMAIN cs : cs[d].pc \in {"tokenWait", "tokenResp"}}

----------------------------------------------------------------------------
StoreTokenKeepFirst(tc, token) ==
  IF NodeCacheHas(tc, "access_token") THEN tc
  ELSE NodeCacheSet(tc, "access_token", token, tokenTTL)

(* tokenCache.set('access_token', token) *)
StoreToken(tc, token) == NodeCacheSet(tc, "access_token", token, tokenTTL)

(* dataCache.set(cacheKey, data) *)
StoreData(dc, key, data) == NodeCacheSet(dc, key, data, dataTTL)

(* The dataCache.del calls of a write, in order *)
RECURSIVE DelAll(_, _)
DelAll(dc, keys) ==
  IF keys = << >> THEN dc ELSE DelAll(NodeCacheDel(dc, Head(keys)), Tail(keys))

Invalidation(dc, op, a) == DelAll(dc, InvalidatedKeys(op, a))

(* Bookkeeping for the claims: every entry that survives the invalidation  *)
(* of a completed write was stored before that write.                      *)
MarkPre(dc, op, a) ==
  [k \in DOMAIN dc |->
     [dc[k] EXCEPT !.pre = @ \cup {[op |-> op, list |-> a.list, item |-> a.item]}]]

(* Bookkeeping for the claims: the stores under the keys a write deletes   *)
(* are no longer in force.                                                 *)
Deleted(cs, keys) ==
  [d \in DOMAIN cs |->
     IF \E i \in 1..Len(keys) : cs[d].h.skey = keys[i]
     THEN [cs[d] EXCEPT !.h.sleft = -1] ELSE cs[d]]

Elapse(left, d) == IF left - d >= 0 THEN left - d ELSE -1

----------------------------------------------------------------------------
(* The synchronous code of the service, from one network await to the next *)

RECURSIVE Run(_, _)

(* makeRequest with the token at hand: axios(requestConfig) is sent *)
(* The headers that createItem, updateItem and deleteItem pass with their  *)
(* write                                                                   *)
WriteHeadersWithoutDigest(cl) ==
  [NoHeaders EXCEPT !.method = CASE cl.op = "updateItem" -> "MERGE"
                                   [] cl.op = "deleteItem" -> "DELETE"
                                   [] OTHER -> "",
                    !.ifMatch = IF cl.op = "createItem" THEN "" ELSE "*"]

(* The write sent with IF-MATCH: * whatever the item read returned *)
WriteHeadersAnyVersion(cl) ==
  [digest |-> cl.loc.formDigestValue,
   method |-> CASE cl.op = "updateItem" -> "MERGE"
                [] cl.op = "deleteItem" -> "DELETE"
                [] OTHER -> "",
   ifMatch |-> IF cl.op = "createItem" THEN "" ELSE "*"]

WriteHeaders(cl) ==
  [digest |-> cl.loc.formDigestValue,
   method |-> CASE cl.op = "updateItem" -> "MERGE"
                [] cl.op = "deleteItem" -> "DELETE"
                [] OTHER -> "",
   ifMatch |-> IF cl.op = "createItem" THEN ""
               ELSE IF cl.loc.etag # "" THEN cl.loc.etag ELSE "*"]

(* axios(requestConfig) *)
SendRequest(M, c, token) ==
  LET cl == M.calls[c]
      write == CurStep(cl).k = "req" /\ CurStep(cl).x = "write"
  IN [M EXCEPT !.calls[c].pc = "dataWait",
               !.calls[c].tok = token,
               !.calls[c].h.nData = @ + 1,
               !.calls[c].h.sent = IF write THEN WriteHeaders(cl) ELSE @]

(* What follows `await this.getAccessToken()` once it has returned token:  *)
(* the controller's response (getToken, validateToken) or makeRequest's    *)
(* request.                                                                *)
GotToken(M, c, token) ==
  LET M1 == [M EXCEPT !.calls[c].h.fresh =
                         @ /\ tokens[token].age < TokenLifetime]
  IN IF CurStep(M.calls[c]).k = "token"
     THEN Run([M1 EXCEPT !.calls[c].retTok = token,
                         !.calls[c].step = @ + 1], c)
     ELSE SendRequest(M1, c, token)

(* axios.post(config.sharepoint.tokenEndpoint, ...) *)
PostTokenRequest(M, c) ==
  [M EXCEPT !.calls[c].pc = "tokenWait",
            !.calls[c].h.nTok = @ + 1,
            !.calls[c].h.tries = @ + 1,
            !.calls[c].h.dataAtTok = M.calls[c].h.nData,
            !.calls[c].h.conc = Refreshing(M.calls) \ {c}]

TokenRequestRetried(M, c) ==
  IF M.calls[c].h.tries < 2
  THEN PostTokenRequest([M EXCEPT !.calls[c].net = NoNet], c)
  ELSE [M EXCEPT !.calls[c].pc = "failed",
                 !.calls[c].net = NoNet,
                 !.calls[c].err = [thrown |-> TRUE,
                                   msg |-> "Token acquisition failed",
                                   status |-> 0]]

(* The catch block of getAccessToken: log and throw *)
TokenRequestFailed(M, c) ==
  [M EXCEPT !.calls[c].pc = "failed",
            !.calls[c].net = NoNet,
            !.calls[c].err = [thrown |-> TRUE,
                              msg |-> "Token acquisition failed", status |-> 0]]

getAccessTokenNoCache(M, c) == PostTokenRequest([M EXCEPT !.calls[c].h.tries = 0], c)

getAccessToken(M, c) ==
  LET M0 == [M EXCEPT !.calls[c].h.tries = 0]
  IN IF NodeCacheHas(M.tc, "access_token")
     THEN GotToken(M0, c, NodeCacheGet(M.tc, "access_token"))
     ELSE PostTokenRequest(M0, c)

makeRequest(M, c) == getAccessToken(M, c)

UncachedRead(M, c, rop) ==
  makeRequest([M EXCEPT !.calls[c].h.miss =
                           Append(@, cacheKey(rop, M.calls[c].a))], c)

(* getLists, getListByTitle, getFolders, getFolderContents, getAllFiles,   *)
(* getListItems, getItemById up to the await of makeRequest                *)
CachedRead(M, c, rop) ==
  LET key == cacheKey(rop, M.calls[c].a)
  IN IF NodeCacheHas(M.dc, key)
     THEN Run([M EXCEPT !.calls[c].retVal = NodeCacheGet(M.dc, key),
                        !.calls[c].loc.etag =
                           IF rop = "getItemById"
                           THEN Etag(NodeCacheGet(M.dc, key)) ELSE @,
                        !.calls[c].step = @ + 1,
                        !.calls[c].h.hits =
                           Append(@, [key |-> key, v |-> M.dc[key].v,
                                      left |-> M.dc[key].left,
                                      pre |-> M.dc[key].pre])], c)
     ELSE makeRequest([M EXCEPT !.calls[c].h.miss = Append(@, key)], c)

Run(M, c) ==
  LET cl == M.calls[c]
  IN IF cl.step > Len(Program(cl.op))
     THEN [M EXCEPT !.calls[c].pc = "done"]
     ELSE LET s == CurStep(cl)
              B == [M EXCEPT !.calls[c].h.order =
                               Append(@, IF s.x = "" THEN s.k ELSE s.x)]
          IN CASE s.k = "token" -> getAccessToken(B, c)
               [] s.k = "read" -> CachedRead(B, c, s.x)
               [] s.k = "req" -> makeRequest(B, c)
               [] s.k = "inval" ->
                    Run([B EXCEPT
                           !.dc = MarkPre(Invalidation(M.dc, cl.op, cl.a),
                                          cl.op, cl.a),
                           !.calls = Deleted(@, InvalidatedKeys(cl.op, cl.a)),
                           !.calls[c].step = @ + 1], c)

----------------------------------------------------------------------------
(* Actions *)

Init ==
  /\ tokenCache = EmptyCache
  /\ dataCache = EmptyCache
  /\ calls = [c \in Slots |-> IdleCall]
  /\ tokens = << >>
  /\ upVer = 0
  /\ lastDone = 0
  /\ ticks = 0
  /\ flushes = 0

Commit(M) ==
  /\ calls' = M.calls
  /\ tokenCache' = M.tc
  /\ dataCache' = M.dc

Running(c) == Mem(calls, tokenCache, dataCache)

(* A controller calls the service: the code up to the first network await *)
Start(c, op, a) ==
  /\ calls[c].pc = "idle"
  /\ \A d \in 1..(c - 1) : calls[d].pc # "idle"
  /\ LET cl == [IdleCall EXCEPT
                  !.op = op, !.a = a, !.step = 1,
                  !.h.after = {d \in Slots : calls[d].pc = "done"},
                  !.h.stored = IF op \in ReadOps
                               THEN {d \in Slots :
                                       /\ calls[d].pc = "done"
                                       /\ calls[d].h.skey = cacheKey(op, a)
                                       /\ calls[d].h.sleft >= 0}
                               ELSE {},
                  !.h.lastAtStart = IF op = "getToken" THEN lastDone ELSE 0,
                  !.h.owed = IF op = "getToken"
                             THEN {t \in 1..Len(tokens) : tokens[t].sleft >= 0}
                             ELSE {}]
     IN Commit(Run(Mem([calls EXCEPT ![c] = cl], tokenCache, dataCache), c))
  /\ UNCHANGED <<tokens, upVer, lastDone, ticks, flushes>>

(* The token endpoint answers a request: it issues a new token *)
TokenEndpointIssues(c) ==
  /\ calls[c].pc = "tokenWait"
  /\ tokens' = Append(tokens, [age |-> 0, sleft |-> -1])
  /\ calls' = [calls EXCEPT ![c].pc = "tokenResp",
                            ![c].net = [NoNet EXCEPT !.ok = TRUE,
                                                     !.tok = Len(tokens) + 1]]
  /\ UNCHANGED <<tokenCache, dataCache, upVer, lastDone, ticks, flushes>>

(* ... or refuses it *)
TokenEndpointRefuses(c) ==
  /\ calls[c].pc = "tokenWait"
  /\ calls' = [calls EXCEPT ![c].pc = "tokenResp", ![c].net = NoNet]
  /\ UNCHANGED <<tokenCache, dataCache, tokens, upVer, lastDone, ticks, flushes>>

(* The response of the token endpoint reaches getAccessToken *)
TokenResponseArrives(c) ==
  /\ calls[c].pc = "tokenResp"
  /\ IF calls[c].net.ok
     THEN LET token == calls[c].net.tok
              M == Mem([calls EXCEPT ![c].net = NoNet],
                       StoreToken(tokenCache, token), dataCache)
          IN /\ Commit(GotToken(M, c, token))
             /\ tokens' = [tokens EXCEPT ![token].sleft = tokenTTL]
             /\ lastDone' = token
     ELSE /\ Commit(TokenRequestFailed(Running(c), c))
          /\ UNCHANGED <<tokens, lastDone>>
  /\ UNCHANGED <<upVer, ticks, flushes>>

(* clearCache(): tokenCache.flushAll(); dataCache.flushAll() *)
clearCache ==
  /\ flushes < MaxFlushes
  /\ flushes' = flushes + 1
  /\ tokenCache' = EmptyCache
  /\ dataCache' = EmptyCache
  /\ tokens' = [t \in DOMAIN tokens |-> [tokens[t] EXCEPT !.sleft = -1]]
  /\ calls' = [c \in Slots |-> [calls[c] EXCEPT !.h.sleft = -1]]
  /\ UNCHANGED <<upVer, lastDone, ticks>>

Min(x, y) == IF x < y THEN x ELSE y

(* d seconds pass *)
Quiet == \A c \in Slots : calls[c].pc \in {"idle", "done", "failed"}

Tick(d) ==
  /\ ticks < MaxTicks
  /\ d > dataTTL => Quiet
  /\ ticks' = ticks + 1
  /\ tokenCache' = NodeCacheAfter(tokenCache, d)
  /\ dataCache' = NodeCacheAfter(dataCache, d)
  /\ tokens' = [t \in DOMAIN tokens |->
                  [age |-> Min(tokens[t].age + d, TokenLifetime),
                   sleft |-> Elapse(tokens[t].sleft, d)]]
  /\ calls' = [c \in Slots |-> [calls[c] EXCEPT !.h.sleft = Elapse(@, d)]]
  /\ UNCHANGED <<upVer, lastDone, flushes>>

(* SharePoint answers the data request of a call.  A read is answered     *)
(* with the content as it is now; a write changes the content.  Other      *)
(* clients of SharePoint may have changed the content since its last       *)
(* answer (changed = 1).                                                   *)
IsWrite(cl) == CurStep(cl).k = "req" /\ CurStep(cl).x = "write"

(* The items of a library upstream *)
FilesUpstream(ver) == 6 + ver

(* The length of d.results in the answer to a step: SharePoint honours     *)
(* $top; only the item collections have results                            *)
ResultsUpstream(cl, ver) ==
  LET s == CurStep(cl)
  IN IF s.k = "read" /\ s.x \in {"getAllFiles", "getListItems"}
     THEN IF cl.a.opts.top > 0 /\ cl.a.opts.top < FilesUpstream(ver)
          THEN cl.a.opts.top ELSE FilesUpstream(ver)
     ELSE 0

UpstreamAnswersWith(c, changed, noEtag) ==
  /\ calls[c].pc = "dataWait"
  /\ changed > 0 => upVer < MaxVersion
  /\ LET cl == calls[c]
         ver == upVer + changed + (IF IsWrite(cl) THEN 1 ELSE 0)
     IN /\ upVer' = ver
        /\ calls' = [calls EXCEPT
                       ![c].pc = "dataResp",
                       ![c].net = [NoNet EXCEPT
                                     !.ok = TRUE,
                                     !.val = [ep |-> StepEndpoint(cl.op, cl.a, CurStep(cl)),
                                              ver |-> ver,
                                              n |-> ResultsUpstream(cl, ver),
                                              digest |->
                                                IF CurStep(cl).x = "contextinfo"
                                                THEN [by |-> c, seq |-> cl.h.nData]
                                                ELSE NoDigest,
                                              noEtag |-> noEtag]]]
  /\ UNCHANGED <<tokenCache, dataCache, tokens, lastDone, ticks, flushes>>

(* The answers of SharePoint in odata=verbose: every item has its etag *)
UpstreamAnswers(c, changed) == UpstreamAnswersWith(c, changed, FALSE)

(* The answer to a read of an item whose d.__metadata has no etag *)
UpstreamAnswersWithoutEtag(c) ==
  /\ calls[c].pc = "dataWait"
  /\ CurStep(calls[c]).k = "read" /\ CurStep(calls[c]).x = "getItemById"
  /\ UpstreamAnswersWith(c, 0, TRUE)

(* ... or rejects it with an HTTP status *)
DataFailures == {401, 404}

UpstreamRejects(c, status) ==
  /\ calls[c].pc = "dataWait"
  /\ calls' = [calls EXCEPT ![c].pc = "dataResp",
                            ![c].net = [NoNet EXCEPT !.status = status]]
  /\ UNCHANGED <<tokenCache, dataCache, tokens, upVer, lastDone, ticks, flushes>>

(* The first request of a call sent once more after a failure *)
RequestRetried(M, c) ==
  IF M.calls[c].h.nData < 2
  THEN SendRequest([M EXCEPT !.calls[c].net = NoNet], c, M.calls[c].tok)
  ELSE [M EXCEPT !.calls[c].pc = "failed",
                 !.calls[c].net = NoNet,
                 !.calls[c].err = [thrown |-> TRUE, msg |-> "Request failed",
                                   status |-> M.calls[c].net.status]]

(* The catch block of makeRequest: log and rethrow *)
RequestFailed(M, c) ==
  [M EXCEPT !.calls[c].pc = "failed",
            !.calls[c].net = NoNet,
            !.calls[c].err = [thrown |-> TRUE, msg |-> "Request failed",
                              status |-> M.calls[c].net.status]]

(* makeRequest returns response.data: a cached read stores it, and the     *)
(* operation goes on to its next step.                                     *)
RequestSucceeded(M, c) ==
  LET cl == M.calls[c]
      s == CurStep(cl)
      dc == IF s.k = "read"
            THEN StoreData(M.dc, cacheKey(s.x, cl.a), cl.net.val)
            ELSE M.dc
      h == IF s.k = "read"
           THEN [cl.h EXCEPT !.skey = cacheKey(s.x, cl.a), !.sleft = dataTTL]
           ELSE cl.h
      loc == CASE s.k = "read" /\ s.x = "getItemById" ->
                    [cl.loc EXCEPT !.etag = Etag(cl.net.val)]
               [] s.k = "req" /\ s.x = "contextinfo" ->
                    [cl.loc EXCEPT !.formDigestValue = cl.net.val.digest]
               [] OTHER -> cl.loc
  IN Run([M EXCEPT !.dc = dc,
                   !.calls[c].h = [h EXCEPT !.wrote = @ \/ (s.k = "req" /\ s.x = "write")],
                   !.calls[c].loc = loc,
                   !.calls[c].retVal = cl.net.val,
                   !.calls[c].net = NoNet,
                   !.calls[c].step = @ + 1], c)

(* The response of SharePoint reaches makeRequest *)
DataResponseArrives(c) ==
  /\ calls[c].pc = "dataResp"
  /\ IF calls[c].net.ok
     THEN Commit(RequestSucceeded(Running(c), c))
     ELSE Commit(RequestFailed(Running(c), c))
  /\ UNCHANGED <<tokens, upVer, lastDone, ticks, flushes>>

----------------------------------------------------------------------------
(* The calls in progress *)
InFlight == {d \in Slots : calls[d].pc \notin {"idle", "done", "failed"}}

(* The credential cache on its own: GET /api/auth/token, at most           *)
(* MaxOverlap calls in progress at once                                    *)

NextAuth ==
  \/ \E c \in Slots :
       /\ Cardinality(InFlight) < MaxOverlap
       /\ Start(c, "getToken", NoArgs)
  \/ \E c \in Slots : TokenEndpointIssues(c)
  \/ \E c \in Slots : TokenEndpointRefuses(c)
  \/ \E c \in Slots : TokenResponseArrives(c)
  \/ clearCache
  \/ \E d \in TickSteps : Tick(d)

SpecAuth == Init /\ [][NextAuth]_vars

----------------------------------------------------------------------------
(* Claims about the credential cache *)

GetTokenCalls == {c \in Slots : calls[c].op = "getToken"}

(* C1 as stated: once a token has been stored, every later getAccessToken  *)
(* call made before that token's TTL has elapsed returns that very token   *)
(* and sends no token request; a call made when no stored token's TTL is   *)
(* running sends a new token request.                                      *)
C1_OnceStoredAlwaysThatToken ==
  \A c \in GetTokenCalls :
    /\ calls[c].h.owed # {} =>
         /\ calls[c].pc = "done"
         /\ calls[c].h.nTok = 0
         /\ \A t \in calls[c].h.owed : calls[c].retTok = t
    /\ calls[c].h.owed = {} => calls[c].h.nTok = 1

(* C1 amended: a getAccessToken call made while the TTL of the most recent *)
(* store is running (and no clearCache since) sends no token request and   *)
(* returns the token stored most recently, which is the token of an        *)
(* earlier store unless an overlapping refresh has replaced it; a call     *)
(* made when no such TTL is running sends exactly one token request.       *)
C1_CachedTokenWithinTTL ==
  \A c \in GetTokenCalls :
    /\ calls[c].h.owed # {} =>
         /\ calls[c].pc = "done"
         /\ calls[c].h.nTok = 0
         /\ calls[c].retTok = calls[c].h.lastAtStart
         /\ calls[c].retTok \in calls[c].h.owed
    /\ calls[c].h.owed = {} => calls[c].h.nTok = 1

(* C1 witness: a call answered from the cache without a request, after a   *)
(* call that had to refresh because the TTL had elapsed.                   *)
C1_Witness ==
  \E c, d \in GetTokenCalls :
    /\ d < c
    /\ calls[d].h.owed = {} /\ calls[d].h.lastAtStart # 0 /\ calls[d].pc = "done"
    /\ calls[c].h.owed # {} /\ calls[c].pc = "done" /\ calls[c].h.nTok = 0
    /\ calls[c].retTok = calls[d].retTok

(* C2 as stated: every token getAccessToken returns was issued by the      *)
(* token endpoint and is within its upstream lifetime when it is returned. *)
C2_ReturnedTokenIsValid ==
  \A c \in Slots :
    /\ calls[c].retTok \in 0..Len(tokens)
    /\ calls[c].h.fresh

(* C4: refreshes are not coordinated, and the last one to complete wins:   *)
(* when no refresh is in flight and the TTL of the most recent store is    *)
(* running, the cache holds exactly one token, the one that the refresh    *)
(* that completed last has stored, with the TTL of that store.             *)
C4_LastRefreshWins ==
  (Refreshing(calls) = {} /\ lastDone # 0 /\ tokens[lastDone].sleft >= 0) =>
    /\ DOMAIN tokenCache = {"access_token"}
    /\ NodeCacheGet(tokenCache, "access_token") = lastDone
    /\ tokenCache["access_token"].left = tokens[lastDone].sleft

(* C4 witness: two overlapping calls have each sent their own token        *)
(* request, got different tokens, and the cache holds the later one.       *)
C4_Witness ==
  \E c, d \in GetTokenCalls :
    /\ c # d
    /\ calls[c].pc = "done" /\ calls[d].pc = "done"
    /\ calls[c].h.nTok = 1 /\ calls[d].h.nTok = 1
    /\ c \in calls[d].h.conc
    /\ calls[c].retTok # calls[d].retTok
    /\ Refreshing(calls) = {}
    /\ NodeCacheHas(tokenCache, "access_token")
    /\ NodeCacheGet(tokenCache, "access_token") = lastDone
    /\ lastDone \in {calls[c].retTok, calls[d].retTok}

----------------------------------------------------------------------------
(* The gateway: the calls the controllers make on the service *)

Library == "Documents"

OnList == [NoArgs EXCEPT !.list = Library]

OnItem == [OnList EXCEPT !.item = 7]

TopFive == [OnList EXCEPT !.opts.top = 5]

InFolder == [NoArgs EXCEPT !.path = "/sites/Documents/Templates"]

ItemCalls == { <<"getItemById", OnItem>>, <<"updateItem", OnItem>> }

ListCalls ==
  { <<"getListItems", TopFive>>, <<"createItem", OnList>>,
    <<"updateItem", OnItem>>, <<"deleteItem", OnItem>> }

ReadCalls ==
  { <<"getLists", NoArgs>>, <<"getListByTitle", OnList>>,
    <<"getFolders", OnList>>, <<"getFolderContents", InFolder>>,
    <<"getAllFiles", OnList>>, <<"getListItems", TopFive>>,
    <<"getItemById", OnItem>> }

FlushCalls == { <<"getItemById", OnItem>>, <<"deleteItem", OnItem>> }

Writes == {d \in Slots : calls[d].op \in WriteOps}

(* The controllers start up to n calls from G, at most MaxOverlap of them  *)
(* in progress at once and at most MaxWrites of them writes.               *)
Calls(G, n) ==
  \E c \in 1..n : \E g \in G :
    /\ g[1] \in WriteOps => Cardinality(Writes) < MaxWrites
    /\ Cardinality(InFlight) < MaxOverlap
    /\ Start(c, g[1], g[2])

(* The remote ends answer *)
Answers ==
  \/ \E c \in Slots : TokenEndpointIssues(c)
  \/ \E c \in Slots : TokenResponseArrives(c)
  \/ \E c \in Slots : \E changed \in {0, 1} : UpstreamAnswers(c, changed)
  \/ \E c \in Slots : DataResponseArrives(c)

(* ... or fail *)
Failures ==
  \/ \E c \in Slots : TokenEndpointRefuses(c)
  \/ \E c \in Slots : \E st \in DataFailures : UpstreamRejects(c, st)

(* Reads and updates of one item *)
NextItem ==
  \/ Calls(ItemCalls, MaxOverlap)
  \/ Answers
  \/ Failures
  \/ \E d \in TickSteps : Tick(d)

SpecItem == Init /\ [][NextItem]_vars

(* Reads of one list and the writes to it, all requests answered *)
NextList ==
  \/ Calls(ListCalls, MaxCalls)
  \/ Answers
  \/ \E d \in TickSteps : Tick(d)

SpecList == Init /\ [][NextList]_vars

(* Repeated and overlapping calls of one cached read, for each of them *)
NextReads ==
  \/ \E c \in Slots : \E g \in ReadCalls :
       /\ \A d \in Slots : calls[d].pc # "idle" => calls[d].op = g[1]
       /\ Cardinality(InFlight) < MaxOverlap
       /\ Start(c, g[1], g[2])
  \/ Answers
  \/ Failures
  \/ Tick(dataTTL)

SpecReads == Init /\ [][NextReads]_vars

(* Reads and a delete of one item, with clearCache *)
NextFlush ==
  \/ Calls(FlushCalls, MaxOverlap)
  \/ Answers
  \/ Failures
  \/ clearCache
  \/ Tick(dataTTL)

SpecFlush == Init /\ [][NextFlush]_vars

----------------------------------------------------------------------------
(* Claims about reads and updates of one item *)

TokenFailed(cl) ==
  cl.pc = "failed" /\ cl.err.msg = "Token acquisition failed"

(* C3 as stated: a gateway call whose token request has failed has made    *)
(* exactly one attempt and has sent no data request at all.                *)
C3_NoDataRequestAtAll ==
  \A c \in Slots :
    TokenFailed(calls[c]) => calls[c].h.tries = 1 /\ calls[c].h.nData = 0

(* What C3 asks of every step *)
C3_Step ==
  \A c \in Slots :
    /\ (calls[c].pc = "tokenResp" /\ ~calls[c].net.ok /\ calls'[c] # calls[c]) =>
         /\ TokenFailed(calls'[c])
         /\ calls'[c].err.thrown
         /\ calls'[c].h.tries = 1
         /\ calls'[c].h.nTok = calls[c].h.nTok
         /\ calls'[c].h.nData = calls[c].h.dataAtTok
         /\ tokenCache' = tokenCache
         /\ dataCache' = dataCache
    /\ calls[c].pc = "failed" =>
         /\ calls'[c].pc = "failed"
         /\ calls'[c].step = calls[c].step
         /\ calls'[c].h.nTok = calls[c].h.nTok
         /\ calls'[c].h.nData = calls[c].h.nData

(* C3 amended: when the response to a call's token request is a failure,   *)
(* getAccessToken throws "Token acquisition failed" after that one         *)
(* attempt, in the same step, leaving the token cache and the data cache   *)
(* as they are; the makeRequest that asked for the token sends nothing     *)
(* (the call's data requests are those it had sent before the token        *)
(* request), and the failed call takes no further step.                    *)
C3_TokenFailureEndsTheCall == [][C3_Step]_vars

(* C3 witness: an updateItem whose token request was refused has failed    *)
(* after one attempt, having sent data requests before the token expired,  *)
(* and the token cache is empty.                                           *)
C3_Witness ==
  \E c \in Slots :
    /\ calls[c].op = "updateItem"
    /\ TokenFailed(calls[c])
    /\ calls[c].h.tries = 1
    /\ calls[c].h.nData = calls[c].h.dataAtTok
    /\ calls[c].h.nData >= 1
    /\ tokenCache = EmptyCache

(* The mark an updateItem of the item of call cl leaves on the entries     *)
(* that survive its invalidation                                           *)
UpdateOf(cl) == [op |-> "updateItem", list |-> cl.a.list, item |-> cl.a.item]

UpdatesBefore(c) ==
  {u \in calls[c].h.after :
     /\ calls[u].op = "updateItem"
     /\ calls[u].a.list = calls[c].a.list
     /\ calls[u].a.item = calls[c].a.item}

(* What C5 asks of every step *)
C5_Step ==
  /\ \A u \in Slots :
       (calls'[u].op = "updateItem" /\ calls[u].pc # "done"
        /\ calls'[u].pc = "done") =>
          ~NodeCacheHas(dataCache', ItemKey(calls'[u].a))
  /\ \A c \in Slots :
       (calls'[c].op = "getItemById" /\ UpdatesBefore(c)' # {}) =>
          \A i \in 1..Len(calls'[c].h.hits) :
            UpdateOf(calls'[c]) \notin calls'[c].h.hits[i].pre

(* C5: an updateItem that completes leaves no entry under the exact key    *)
(* item_<listTitle>_<itemId>, and a getItemById of that item started after *)
(* the update has completed is never answered from an entry that was in    *)
(* the data cache when the update completed.                               *)
C5_NoPreUpdateEntryAfterUpdate == [][C5_Step]_vars

(* C5 witness: an updateItem has read the item (storing it), written and   *)
(* completed; a getItemById of the same item started afterwards missed     *)
(* the cache, sent one request and returned the updated item.              *)
C5_Witness ==
  \E c \in Slots : \E u \in UpdatesBefore(c) :
    /\ calls[c].op = "getItemById" /\ calls[c].pc = "done"
    /\ ItemKey(calls[u].a) \in {calls[u].h.miss[i] : i \in 1..Len(calls[u].h.miss)}
    /\ calls[c].h.miss = << ItemKey(calls[c].a) >>
    /\ calls[c].h.hits = << >>
    /\ calls[c].h.nData = 1
    /\ calls[c].retVal.ver >= calls[u].retVal.ver

----------------------------------------------------------------------------
(* Claims about the reads of a list and the writes to it *)

(* The keys under which getListItems results of a list are cached *)
ListItemsKeys(listTitle) ==
  {cacheKey("getListItems", g[2]) :
     g \in {x \in ListCalls : x[1] = "getListItems" /\ x[2].list = listTitle}}

WriteOf(cl) == [op |-> cl.op, list |-> cl.a.list, item |-> cl.a.item]

Completes(c) == calls[c].pc # "done" /\ calls'[c].pc = "done"

(* What C6 asks of every step *)
C6_Step ==
  /\ \A w \in Slots :
       (calls[w].op \in WriteOps /\ Completes(w)) =>
          \A k \in ListItemsKeys(calls[w].a.list) \cap DOMAIN dataCache :
            /\ NodeCacheHas(dataCache', k)
            /\ dataCache'[k].v = dataCache[k].v
            /\ dataCache'[k].left = dataCache[k].left
  /\ \A c \in Slots :
       LET key == cacheKey("getListItems", calls'[c].a)
       IN (calls[c].pc = "idle" /\ calls'[c].op = "getListItems"
           /\ NodeCacheHas(dataCache, key)
           /\ dataCache[key].pre # {}) =>
             /\ calls'[c].pc = "done"
             /\ calls'[c].retVal = dataCache[key].v
             /\ calls'[c].h.nData = 0
             /\ dataCache'[key] = dataCache[key]

(* C6: the step in which a createItem, updateItem or deleteItem completes  *)
(* (its dataCache.del calls included) leaves every cached getListItems     *)
(* result of the list in the cache with its value and its remaining TTL,   *)
(* and a getListItems call that finds such an entry returns its value and  *)
(* sends no request.                                                       *)
C6_WildcardDeleteRemovesNothing == [][C6_Step]_vars

(* C6 witness: a getListItems result was cached, a write to the list       *)
(* completed afterwards, and an identical getListItems call started after  *)
(* the write was answered from that entry: the result it returned is older *)
(* than the write.                                                         *)
C6_Witness ==
  \E c \in Slots : \E w \in calls[c].h.after :
    /\ calls[c].op = "getListItems" /\ calls[c].pc = "done"
    /\ calls[w].op \in WriteOps /\ calls[w].a.list = calls[c].a.list
    /\ Len(calls[c].h.hits) = 1
    /\ WriteOf(calls[w]) \in calls[c].h.hits[1].pre
    /\ calls[c].retVal = calls[c].h.hits[1].v
    /\ calls[c].retVal.ver < calls[w].retVal.ver
    /\ calls[c].h.nData = 0

----------------------------------------------------------------------------
(* Claims about the cached reads *)

ReadCallSlots == {c \in Slots : calls[c].op \in ReadOps}

(* C7 as stated: a cached read started while the store of a completed call *)
(* with the same operation and arguments is in force (TTL not elapsed, key *)
(* not deleted, cache not flushed) completes at once without any request   *)
(* and returns the response that call stored; a read that missed and has   *)
(* completed has sent exactly one data request.                            *)
C7_ReturnsTheStoredResponse ==
  \A c \in ReadCallSlots :
    /\ \A d \in calls[c].h.stored :
         /\ calls[c].pc = "done"
         /\ calls[c].h.nData = 0
         /\ calls[c].retVal = calls[d].retVal
    /\ (calls[c].h.miss # << >> /\ calls[c].pc = "done") => calls[c].h.nData = 1

(* What C7 asks of every step *)
C7_Step ==
  \A c \in Slots :
    LET b == calls'[c]
        key == cacheKey(b.op, b.a)
    IN b.op \in ReadOps =>
         /\ calls[c].pc = "idle" =>
              /\ b.h.stored # {} => NodeCacheHas(dataCache, key)
              /\ IF NodeCacheHas(dataCache, key)
                 THEN /\ b.pc = "done"
                      /\ b.h.nData = 0 /\ b.h.nTok = 0
                      /\ b.retVal = dataCache[key].v
                      /\ b.retVal.ep = Endpoint(b.op, b.a)
                      /\ \A d \in b.h.stored :
                           dataCache[key].left >= calls[d].h.sleft
                      /\ dataCache' = dataCache
                 ELSE /\ b.pc \in {"tokenWait", "dataWait"}
                      /\ b.h.nData + b.h.nTok = 1
                      /\ b.h.nData = 1 <=> NodeCacheHas(tokenCache, "access_token")
         /\ b.h.nData <= 1 /\ b.h.nTok <= 1
         /\ (calls[c].pc = "dataResp" /\ b.pc = "done") =>
              /\ b.h.nData = 1
              /\ b.retVal = calls[c].net.val
              /\ b.retVal.ep = Endpoint(b.op, b.a)
              /\ NodeCacheHas(dataCache', key)
              /\ dataCache'[key].v = b.retVal
              /\ dataCache'[key].left = dataTTL
         /\ (calls[c].pc # "failed" /\ b.pc = "failed") => dataCache' = dataCache

(* C7 amended: such a read completes at once without any request and      *)
(* returns the response stored most recently under its key, a response to  *)
(* the same request, stored no earlier than the completed call's (an       *)
(* overlapping read of the same key may have replaced that one).  A read   *)
(* that finds no entry sends one request (for the token if none is cached, *)
(* else for the data); it never sends more than one data request, and when *)
(* the response arrives it is stored under the key with the full TTL.  A   *)
(* read whose token or data request fails stores nothing.                  *)
C7_CachedReads == [][C7_Step]_vars

(* C7 witness: a read missed, sent one request and stored the response; a  *)
(* later identical read, started after time had passed but within the TTL, *)
(* returned that response without a request.                               *)
C7_Witness ==
  \E c \in ReadCallSlots : \E d \in calls[c].h.stored :
    /\ calls[d].h.miss # << >> /\ calls[d].h.nData = 1
    /\ calls[c].pc = "done" /\ calls[c].h.nData = 0
    /\ calls[c].h.miss = << >>
    /\ Len(calls[c].h.hits) = 1
    /\ calls[c].h.hits[1].left < dataTTL
    /\ calls[c].retVal = calls[d].retVal

----------------------------------------------------------------------------
(* Claims about the entries of the data cache *)

(* How an entry under key k can leave the data cache in a step *)
TTLExpired(k) == ticks' # ticks /\ dataCache[k].left < dataTTL

Flushed == flushes' # flushes

DeletedExactly(k) ==
  \E w \in Slots :
    /\ calls[w].op \in {"updateItem", "deleteItem"}
    /\ Completes(w)
    /\ k = ItemKey(calls[w].a)

(* A read of key k gets its response and stores it *)
StoredAnew(k) ==
  \E c \in Slots :
    /\ calls[c].pc = "dataResp" /\ calls[c].net.ok
    /\ CurStep(calls[c]).k = "read"
    /\ cacheKey(CurStep(calls[c]).x, calls[c].a) = k
    /\ dataCache'[k].v = calls[c].net.val
    /\ dataCache'[k].left = dataTTL

(* What C8 as stated asks of every step *)
C8_ImmutableStep ==
  \A k \in DOMAIN dataCache :
    IF NodeCacheHas(dataCache', k)
    THEN dataCache'[k].v = dataCache[k].v
    ELSE TTLExpired(k) \/ Flushed \/ DeletedExactly(k)

(* C8 as stated: while an entry exists its value never changes, and an     *)
(* entry disappears only by TTL expiry, a del of its exact key or          *)
(* clearCache.                                                             *)
C8_EntriesImmutable == [][C8_ImmutableStep]_vars

(* What C8 amended asks of every step *)
C8_Step ==
  \A k \in DOMAIN dataCache :
    IF NodeCacheHas(dataCache', k)
    THEN \/ /\ dataCache'[k].v = dataCache[k].v
            /\ dataCache'[k].left = dataCache[k].left
         \/ /\ ticks' # ticks
            /\ dataCache'[k].v = dataCache[k].v
            /\ dataCache'[k].left < dataCache[k].left
         \/ StoredAnew(k)
    ELSE TTLExpired(k) \/ Flushed \/ DeletedExactly(k)

(* C8 amended: an entry disappears only by TTL expiry, a del of its exact  *)
(* key or clearCache; while it exists, its value and its expiry time       *)
(* change only when a read of the same key that had missed the cache gets  *)
(* its response: dataCache.set then replaces the value and restarts the    *)
(* TTL.                                                                    *)
C8_EntriesChangeOnlyByStore == [][C8_Step]_vars

(* C8 witness: two overlapping reads of one key have both stored their     *)
(* responses, which differ, and both stores are in force (no expiry, no    *)
(* del, no clearCache since): the second store replaced the value of an    *)
(* existing entry.                                                         *)
C8_Witness ==
  \E c, d \in ReadCallSlots :
    /\ c # d
    /\ calls[c].pc = "done" /\ calls[d].pc = "done"
    /\ calls[c].h.skey = calls[d].h.skey
    /\ calls[c].h.sleft >= 0 /\ calls[d].h.sleft >= calls[c].h.sleft
    /\ calls[c].retVal # calls[d].retVal
    /\ NodeCacheHas(dataCache, calls[d].h.skey)
    /\ NodeCacheGet(dataCache, calls[d].h.skey) \in {calls[c].retVal, calls[d].retVal}
    /\ flushes = 0

----------------------------------------------------------------------------
(* Cache keys: reads whose titles and options contain the separator *)

AliasTitle ==
  Library \o "_" \o getListItemsEndpoint(Library, [NoOpts EXCEPT !.filter = "Id gt 0"])

AliasFilter == "Id gt 0" \o "_" \o getListItemsEndpoint(AliasTitle, NoOpts)

KeyCalls ==
  ReadCalls \cup
  { <<"getListItems", OnList>>,
    <<"getListItems", [OnList EXCEPT !.opts.filter = "Id gt 0"]>>,
    <<"getListItems", [OnList EXCEPT !.opts.filter = AliasFilter]>>,
    <<"getListItems", [NoArgs EXCEPT !.list = AliasTitle]>>,
    <<"getItemById", [NoArgs EXCEPT !.list = "Documents_1", !.item = 2]>>,
    <<"getItemById", [NoArgs EXCEPT !.list = Library, !.item = 12]>> }

NextKeys ==
  \/ Calls(KeyCalls, MaxOverlap)
  \/ Answers

SpecKeys == Init /\ [][NextKeys]_vars

(* C9 as stated: a cache hit of a read returns only a value that was       *)
(* stored for the same operation and the same resolved arguments, i.e. the *)
(* response to the request that this read would send itself (two reads     *)
(* that differ never share a key).                                         *)
C9_HitReturnsOwnResponse ==
  \A c \in ReadCallSlots :
    \A i \in 1..Len(calls[c].h.hits) :
      calls[c].h.hits[i].v.ep = Endpoint(calls[c].op, calls[c].a)

----------------------------------------------------------------------------
(* The filter of searchMultiCriteria *)

Criteria ==
  [fileName : {"", "report"}, fileType : {"", "pdf", ".pdf", "docx"},
   author : {"", "Nicole"}, editor : {"", "Sam"},
   folderPath : {"", "Templates"}, startDate : {"", "2024-01-01T00:00:00Z"},
   endDate : {"", "2024-12-31T23:59:59Z"}, keyword : {"", "budget"},
   orderby : {"", "Title"}]

NextFilter ==
  \/ \E cr \in Criteria : Start(1, "getAllFiles", searchMultiCriteria(cr, Library))
  \/ Answers

SpecFilter == Init /\ [][NextFilter]_vars

FilterFields == << "fileName", "fileType", "author", "editor", "folderPath",
                   "startDate", "endDate", "keyword" >>

Present(cr) == {i \in 1..Len(FilterFields) : cr[FilterFields[i]] # ""}

(* The clause of a field *)
ClauseOf(f, v) ==
  CASE f = "fileName" -> "substringof('" \o v \o "', FileLeafRef)"
    [] f = "fileType" ->
         IF v \in {"pdf", ".pdf"} THEN "endswith(FileLeafRef, '.pdf')"
         ELSE "endswith(FileLeafRef, '." \o v \o "')"
    [] f = "author" -> "Author/Title eq '" \o v \o "'"
    [] f = "editor" -> "Editor/Title eq '" \o v \o "'"
    [] f = "folderPath" -> "substringof('" \o v \o "', FileDirRef)"
    [] f = "startDate" -> "Modified ge datetime'" \o v \o "'"
    [] f = "endDate" -> "Modified le datetime'" \o v \o "'"
    [] f = "keyword" ->
         "(substringof('" \o v \o "', FileLeafRef) or substringof('" \o v
         \o "', Title))"

RECURSIVE AndOf(_, _)
AndOf(cr, fields) ==
  IF fields = {} THEN ""
  ELSE LET i == CHOOSE x \in fields : \A y \in fields : x <= y
           f == FilterFields[i]
           rest == fields \ {i}
       IN ClauseOf(f, cr[f])
          \o (IF rest = {} THEN "" ELSE " and " \o AndOf(cr, rest))

(* C10: the filter that searchMultiCriteria hands to getAllFiles is the    *)
(* clauses of the present (non-empty) fields, one per field and in the     *)
(* order of the fields, joined by " and "; absent fields contribute        *)
(* nothing; fileType pdf gives endswith(FileLeafRef, '.pdf').              *)
C10_FilterIsConjunctionOfPresentFields ==
  \A c \in Slots :
    calls[c].pc # "idle" =>
      LET cr == calls[c].a.criteria
          filters == searchMultiCriteriaFilters(cr)
      IN /\ calls[c].a.opts.filter = AndOf(cr, Present(cr))
         /\ Len(filters) = Cardinality(Present(cr))
         /\ cr.fileType = "pdf" =>
              \E i \in 1..Len(filters) : filters[i] = "endswith(FileLeafRef, '.pdf')"

(* C10 witness: a search by file type pdf and author has been sent with    *)
(* both clauses joined by and.                                             *)
C10_Witness ==
  \E c \in Slots :
    /\ calls[c].pc = "dataWait"
    /\ calls[c].a.criteria.fileType = "pdf"
    /\ calls[c].a.criteria.author = "Nicole"
    /\ calls[c].a.opts.filter =
         "endswith(FileLeafRef, '.pdf') and Author/Title eq 'Nicole'"

----------------------------------------------------------------------------
(* smartSearch and detectSearchIntent *)

(* The alternatives of each file type pattern, in the insertion order of   *)
(* the object; an optional final s ("documents?") adds nothing to test()   *)
fileTypePatterns ==
  << [alts |-> << "word", "docx", "doc", "word document" >>, type |-> "docx"],
     [alts |-> << "powerpoint", "pptx", "ppt", "presentation", "slide" >>,
      type |-> "pptx"],
     [alts |-> << "excel", "xlsx", "xls", "spreadsheet" >>, type |-> "xlsx"],
     [alts |-> << "pdf", "pdfs" >>, type |-> "pdf"] >>

(* (?:by|created by|from|authored by) *)
authorPhrases == << "by", "created by", "from", "authored by" >>

months == << "january", "february", "march", "april", "may", "june", "july",
             "august", "september", "october", "november", "december" >>

recentKeywords == << "recent", "latest", "newest" >>

folderKeywords == << "templates", "marketing", "branding", "clients",
                     "internal assets" >>

statisticsKeywords == << "statistics", "summary", "how many", "count" >>

fileNamePhrases == << "venue research", "conference checklist", "event signage" >>

knownAuthors == << "nicole stirling", "christine gooding", "sajjad" >>

(* The first index of a sequence of literals that the query includes, 0    *)
(* when there is none: the for loops that return on the first hit          *)
FirstIncluded(lits, query) ==
  LET hit == {i \in 1..Len(lits) : includes(query, lits[i])}
  IN IF hit = {} THEN 0 ELSE Least(hit)

FirstFileType(query) ==
  LET hit == {i \in 1..Len(fileTypePatterns) :
                TestAny(fileTypePatterns[i].alts, query)}
  IN IF hit = {} THEN 0 ELSE Least(hit)

(* /(?:by|created by|from|authored by)\s+([a-z\s]+)/ matches at i: a       *)
(* phrase, then a space, then one more character of [a-z\s]                *)
AuthorPhraseAt(query, i) ==
  {p \in 1..Len(authorPhrases) :
     LET j == i + Len(authorPhrases[p])
     IN /\ StartsAt(query, i, authorPhrases[p])
        /\ j <= Len(query)
        /\ IsSpace(CharAt(query, j))
        /\ NameRunEnd(query, j) >= j + 1}

(* query.match(...) of the author expression: the group of the leftmost    *)
(* match, or no match.  \s+ is greedy and gives back one space to the      *)
(* group when nothing else of [a-z\s] follows the spaces.                  *)
authorMatch(query) ==
  LET at == {i \in 1..Len(query) : AuthorPhraseAt(query, i) # {}}
  IN IF at = {} THEN [matched |-> FALSE, group |-> ""]
     ELSE LET i == Least(at)
              p == Least(AuthorPhraseAt(query, i))
              j == i + Len(authorPhrases[p])
              k == SpaceRunEnd(query, j)
              e == NameRunEnd(query, j)
          IN [matched |-> TRUE,
              group |-> IF k < e THEN SubSeq(query, k + 1, e)
                        ELSE SubSeq(query, k, k)]

(* \b at the place before the character i *)
WordBoundary(s, i) ==
  LET before == i > 1 /\ IsWordChar(CharAt(s, i - 1))
      after == i <= Len(s) /\ IsWordChar(CharAt(s, i))
  IN before # after

(* query.match(/\b(20\d{2})\b/) *)
yearMatch(query) ==
  LET at == {i \in 1..Len(query) :
               /\ StartsAt(query, i, "20")
               /\ i + 3 <= Len(query)
               /\ IsDigit(CharAt(query, i + 2))
               /\ IsDigit(CharAt(query, i + 3))
               /\ WordBoundary(query, i)
               /\ WordBoundary(query, i + 4)}
  IN IF at = {} THEN [matched |-> FALSE, group |-> ""]
     ELSE [matched |-> TRUE, group |-> SubSeq(query, Least(at), Least(at) + 3)]

(* query.match(/(\d+)/) *)
countMatch(query) ==
  LET at == {i \in 1..Len(query) : IsDigit(CharAt(query, i))}
  IN IF at = {} THEN [matched |-> FALSE, group |-> ""]
     ELSE [matched |-> TRUE,
           group |-> SubSeq(query, Least(at), DigitRunEnd(query, Least(at)))]

(* The intent object: a property that was never assigned is absent from    *)
(* the record, as it is from the object.                                   *)
keywordIntent(query) == [type |-> "keyword_search", term |-> query]

(* File type detection *)
fileTypeDetected(query) == FirstFileType(query) # 0

fileTypeIntent(query) ==
  [type |-> "file_by_type",
   fileType |-> fileTypePatterns[FirstFileType(query)].type]
  @@ keywordIntent(query)

(* Author/Creator detection *)
authorDetected(query) ==
  authorMatch(query).matched \/ FirstIncluded(knownAuthors, query) # 0

authorIntent(query) ==
  [type |-> "file_by_author",
   author |-> IF authorMatch(query).matched THEN trim(authorMatch(query).group)
              ELSE IF includes(query, "nicole") THEN "Nicole Stirling"
              ELSE IF includes(query, "christine") THEN "Christine Gooding"
              ELSE "Sajjad"]
  @@ keywordIntent(query)

(* Date detection; thisYear is new Date().getFullYear() *)
dateDetected(query) == FirstIncluded(months, query) # 0

dateIntent(query, thisYear) ==
  [type |-> "file_by_date", month |-> FirstIncluded(months, query),
   year |-> IF yearMatch(query).matched THEN parseInt(yearMatch(query).group)
            ELSE thisYear]
  @@ keywordIntent(query)

(* Recent files detection *)
recentDetected(query) == FirstIncluded(recentKeywords, query) # 0

recentIntent(query) ==
  [type |-> "recent_files",
   count |-> IF countMatch(query).matched THEN parseInt(countMatch(query).group)
             ELSE 10]
  @@ keywordIntent(query)

(* Folder detection *)
folderDetected(query) == FirstIncluded(folderKeywords, query) # 0

folderIntent(query) ==
  [type |-> "folder_contents",
   folderPath |-> "/sites/YourSite/Documents/"
                  \o folderKeywords[FirstIncluded(folderKeywords, query)]]
  @@ keywordIntent(query)

(* Statistics detection *)
statisticsDetected(query) == FirstIncluded(statisticsKeywords, query) # 0

statisticsIntent(query) == [type |-> "statistics"] @@ keywordIntent(query)

(* Specific file name detection *)
fileNameDetected(query) == FirstIncluded(fileNamePhrases, query) # 0

fileNameIntent(query) ==
  [type |-> "file_by_name",
   term |-> IF includes(query, "venue") THEN "Venue Research"
            ELSE IF includes(query, "conference") THEN "conference checklist"
            ELSE IF includes(query, "signage") THEN "Event signage"
            ELSE query]
  @@ keywordIntent(query)

(* detectSearchIntent from the folder detection on *)
afterRecent(query) ==
  IF folderDetected(query) THEN folderIntent(query)
  ELSE IF statisticsDetected(query) THEN statisticsIntent(query)
  ELSE IF fileNameDetected(query) THEN fileNameIntent(query)
  ELSE keywordIntent(query)

(* The date and the recent detection in the other order *)
afterAuthorRecentFirst(query, thisYear) ==
  IF recentDetected(query) THEN recentIntent(query)
  ELSE IF dateDetected(query) THEN dateIntent(query, thisYear)
  ELSE afterRecent(query)

(* detectSearchIntent from the date detection on *)
afterAuthor(query, thisYear) ==
  IF dateDetected(query) THEN dateIntent(query, thisYear)
  ELSE IF recentDetected(query) THEN recentIntent(query)
  ELSE afterRecent(query)

(* The author detection before the file type detection *)
detectSearchIntentAuthorFirst(query, thisYear) ==
  IF authorDetected(query) THEN authorIntent(query)
  ELSE IF fileTypeDetected(query) THEN fileTypeIntent(query)
  ELSE afterAuthor(query, thisYear)

detectSearchIntent(query, thisYear) ==
  IF fileTypeDetected(query) THEN fileTypeIntent(query)
  ELSE IF authorDetected(query) THEN authorIntent(query)
  ELSE afterAuthor(query, thisYear)

(* A property of the intent as a template literal renders it: a property   *)
(* that was never assigned reads as undefined                              *)
Rendered(intent, k) == IF k \in DOMAIN intent THEN intent[k] ELSE "undefined"

Pad2(n) == IF n < 10 THEN "0" \o ToString(n) ELSE ToString(n)

IsLeap(year) == (year % 4 = 0 /\ year % 100 # 0) \/ year % 400 = 0

DaysIn(year, month) ==
  IF month = 2 THEN (IF IsLeap(year) THEN 29 ELSE 28)
  ELSE IF month \in {4, 6, 9, 11} THEN 30 ELSE 31

(* new Date(year, month - 1, day).toISOString(), the server clock being in *)
(* UTC                                                                     *)
toISOString(year, month, day) ==
  ToString(year) \o "-" \o Pad2(month) \o "-" \o Pad2(day) \o "T00:00:00.000Z"

(* The getAllFiles call of a search helper: the library is the default     *)
(* 'Documents'                                                             *)
SearchArgs(filter, top, orderby) ==
  [NoArgs EXCEPT !.list = "Documents",
                 !.opts = [NoOpts EXCEPT !.filter = filter, !.top = top,
                                         !.orderby = orderby]]

searchFilesByName(fileName) ==
  SearchArgs("substringof('" \o fileName \o "', FileLeafRef)", 100, "")

searchFilesByType(fileExtension) ==
  SearchArgs("endswith(FileLeafRef, '." \o StripDot(fileExtension) \o "')", 500, "")

searchFilesByDateRange(startDate, endDate) ==
  SearchArgs(IF startDate # "" /\ endDate # ""
               THEN "Modified ge datetime'" \o startDate
                    \o "' and Modified le datetime'" \o endDate \o "'"
             ELSE IF startDate # "" THEN "Modified ge datetime'" \o startDate \o "'"
             ELSE IF endDate # "" THEN "Modified le datetime'" \o endDate \o "'"
             ELSE "",
             500, "Modified desc")

searchFilesByMonth(year, month) ==
  searchFilesByDateRange(toISOString(year, month, 1),
                         toISOString(year, month, DaysIn(year, month)))

searchFilesByAuthor(authorName) ==
  SearchArgs("Author/Title eq '" \o authorName \o "'", 500, "Modified desc")

searchByKeyword(keyword) ==
  SearchArgs("(substringof('" \o keyword \o "', FileLeafRef) or substringof('"
             \o keyword \o "', Title))", 200, "Modified desc")

getFilesInFolder(folderPath) ==
  SearchArgs("FileDirRef eq '" \o folderPath \o "'", 500, "FileLeafRef asc")

getRecentFiles(count) == SearchArgs("", count, "Modified desc")

getFileStatistics == SearchArgs("", 5000, "")

(* smartSearch: the getAllFiles call that the query is routed to *)
smartSearch(rawQuery, thisYear) ==
  LET query == toLowerCase(rawQuery)
      intent == detectSearchIntent(query, thisYear)
      routed ==
        CASE intent.type = "file_by_name" -> searchFilesByName(intent.term)
          [] intent.type = "file_by_type" -> searchFilesByType(intent.fileType)
          [] intent.type = "file_by_author" -> searchFilesByAuthor(intent.author)
          [] intent.type = "file_by_date" ->
               searchFilesByMonth(intent.year, intent.month)
          [] intent.type = "folder_contents" -> getFilesInFolder(intent.folderPath)
          [] intent.type = "keyword_search" ->
               searchByKeyword(Rendered(intent, "keyword"))
          [] intent.type = "recent_files" ->
               getRecentFiles(IF intent.count # 0 THEN intent.count ELSE 10)
          [] intent.type = "statistics" -> getFileStatistics
          [] OTHER -> searchByKeyword(query)
  IN [routed EXCEPT !.query = query, !.now = thisYear, !.intent = intent]

----------------------------------------------------------------------------
(* Smart searches, one after the other: queries that meet each detection   *)
(* alone and several at once, under a server clock that may pass a new     *)
(* year between two calls                                                  *)

Queries ==
  { "excel files from Nicole", "files from nicole", "Nicole Stirling reports",
    "christine gooding", "sajjad notes", "documents in march",
    "reports in march 2024", "march agenda", "may 20245", "mayor budget",
    "latest 5 reports", "recent uploads", "recent 0", "latest from march",
    "recent march minutes", "marketing templates", "latest marketing",
    "how many clients", "summary", "count venue research", "Venue Research",
    "event signage", "conference checklist", "budget", "", "created by  7",
    "standby" }

ClockYears == {2025, 2026}

SearchSlots == {1, 2}

StartSmartSearch ==
  \E c \in SearchSlots, q \in Queries, y \in ClockYears :
    /\ InFlight = {}
    /\ \A d \in 1..(c - 1) : calls[d].a.now <= y
    /\ Start(c, "getAllFiles", smartSearch(q, y))

NextIntent ==
  \/ StartSmartSearch
  \/ Answers

SpecIntent == Init /\ [][NextIntent]_vars

(* The smart searches that have been made *)
Searches == {c \in SearchSlots : calls[c].pc # "idle"}

(* The order of the rules as C11 gives it, the type of each rule, and      *)
(* whether a rule matches a query                                          *)
RuleTypes == << "file_by_type", "file_by_author", "file_by_date",
                "recent_files", "folder_contents", "statistics",
                "file_by_name", "keyword_search" >>

RuleMatches(r, query) ==
  CASE r = 1 -> \E i \in 1..Len(fileTypePatterns) :
                  \E j \in 1..Len(fileTypePatterns[i].alts) :
                    includes(query, fileTypePatterns[i].alts[j])
    [] r = 2 -> \/ authorMatch(query).matched
                \/ \E i \in 1..Len(knownAuthors) : includes(query, knownAuthors[i])
    [] r = 3 -> \E i \in 1..Len(months) : includes(query, months[i])
    [] r = 4 -> \E i \in 1..Len(recentKeywords) : includes(query, recentKeywords[i])
    [] r = 5 -> \E i \in 1..Len(folderKeywords) : includes(query, folderKeywords[i])
    [] r = 6 -> \E i \in 1..Len(statisticsKeywords) :
                  includes(query, statisticsKeywords[i])
    [] r = 7 -> \E i \in 1..Len(fileNamePhrases) :
                  includes(query, fileNamePhrases[i])
    [] r = 8 -> TRUE

FirstRule(query) == Least({r \in 1..Len(RuleTypes) : RuleMatches(r, query)})

(* C11 as stated: the intent is a function of the query alone, and its     *)
(* type is that of the first rule that matches in the order file type,     *)
(* author, month, recent, folder, statistics, file name, keyword search.   *)
C11_IntentIsAFunctionOfTheQuery ==
  /\ \A c \in Searches :
       calls[c].a.intent.type = RuleTypes[FirstRule(calls[c].a.query)]
  /\ \A c, d \in Searches :
       calls[c].a.query = calls[d].a.query => calls[c].a.intent = calls[d].a.intent

(* C11, amended: the type of the intent is that of the first rule that     *)
(* matches in the order file type, author, month, recent, folder,          *)
(* statistics, file name, keyword search, so it is a function of the query *)
(* alone and no later rule overrides an earlier one; the whole intent is a *)
(* function of the query and of the year of the server clock, which is the *)
(* year of a file_by_date intent when the query names none.                *)
C11_TypeByFirstRuleIntentByQueryAndYear ==
  /\ \A c \in Searches :
       /\ calls[c].a.intent.type = RuleTypes[FirstRule(calls[c].a.query)]
       /\ calls[c].a.intent.term # "" \/ calls[c].a.query = ""
  /\ \A c, d \in Searches :
       calls[c].a.query = calls[d].a.query =>
         /\ calls[c].a.intent.type = calls[d].a.intent.type
         /\ calls[c].a.now = calls[d].a.now =>
              calls[c].a.intent = calls[d].a.intent
         /\ calls[c].a.intent # calls[d].a.intent =>
              /\ calls[c].a.intent.type = "file_by_date"
              /\ ~ yearMatch(calls[c].a.query).matched

(* C11 witness: a query that names a month and says recent was classified  *)
(* by the month, and the same query asked in two years got two intents.    *)
C11_Witness ==
  /\ Searches = SearchSlots
  /\ calls[1].a.query = "recent march minutes"
  /\ calls[2].a.query = "recent march minutes"
  /\ calls[1].a.intent.type = "file_by_date"
  /\ calls[1].a.intent.year = 2025
  /\ calls[2].a.intent.year = 2026

(* The searches whose query has both an author phrase and a file type      *)
(* keyword                                                                 *)
AuthorAndTypeSearches ==
  {c \in Searches : /\ RuleMatches(1, calls[c].a.query)
                    /\ RuleMatches(2, calls[c].a.query)}

(* C12 as stated: "excel files from Nicole", lowercased, is classified     *)
(* file_by_author; a query with an author phrase and a file type keyword   *)
(* is classified by the author phrase.                                     *)
C12_AuthorPhraseBeforeFileType ==
  \A c \in AuthorAndTypeSearches : calls[c].a.intent.type = "file_by_author"

(* C12, amended: "excel files from Nicole", lowercased, is classified      *)
(* file_by_type with fileType xlsx and carries no author; a query with an  *)
(* author phrase and a file type keyword is classified by the file type    *)
(* keyword, and the search sent filters on the extension only.             *)
C12_FileTypeBeforeAuthorPhrase ==
  \A c \in AuthorAndTypeSearches :
    /\ calls[c].a.intent.type = "file_by_type"
    /\ "author" \notin DOMAIN calls[c].a.intent
    /\ calls[c].a.query = "excel files from nicole" =>
         /\ calls[c].a.intent.fileType = "xlsx"
         /\ calls[c].a.opts.filter = "endswith(FileLeafRef, '.xlsx')"

(* C12 witness: the search for "excel files from Nicole" was made, its     *)
(* query lowercased and matching the author expression with group nicole.  *)
C12_Witness ==
  \E c \in AuthorAndTypeSearches :
    /\ calls[c].a.query = "excel files from nicole"
    /\ authorMatch(calls[c].a.query).group = "nicole"
    /\ calls[c].pc = "done"

(* The property of the intent that the query template of each type reads *)
TemplateReads ==
  [file_by_name |-> {"term"}, file_by_type |-> {"fileType"},
   file_by_author |-> {"author"}, file_by_date |-> {"month", "year"},
   folder_contents |-> {"folderPath"}, keyword_search |-> {"keyword"},
   recent_files |-> {"count"}, statistics |-> {}]

(* C13 as stated: every intent carries the properties that its query       *)
(* template reads, and the fallback keyword_search passes the query text   *)
(* as the keyword of searchByKeyword, never an undefined parameter.        *)
C13_IntentCarriesWhatItsTemplateReads ==
  \A c \in Searches :
    LET intent == calls[c].a.intent
    IN /\ TemplateReads[intent.type] \subseteq DOMAIN intent
       /\ intent.type = "keyword_search" =>
            calls[c].a.opts.filter = searchByKeyword(calls[c].a.query).opts.filter

----------------------------------------------------------------------------
(* The HTTP surface: apiKeyAuth, the controllers and errorHandler.  The     *)
(* requests are those that reach the routes: well formed and within the    *)
(* rate limit.                                                             *)

(* config.server.apiKey *)
configApiKey == "k-1"

(* String.prototype.replace(pattern, '') with a string pattern: the first  *)
(* occurrence goes                                                         *)
replaceFirst(s, p) ==
  LET at == {i \in 1..Len(s) : StartsAt(s, i, p)}
  IN IF at = {} THEN s
     ELSE SubSeq(s, 1, Least(at) - 1) \o SubSeq(s, Least(at) + Len(p), Len(s))

(* req.header('X-API-Key') || req.header('Authorization')?.replace('Bearer ', '') *)
presentedKey(req) ==
  IF req.xApiKey # "" THEN req.xApiKey
  ELSE replaceFirst(req.authorization, "Bearer ")

(* A response: the HTTP status and the fields of the JSON body.  data is   *)
(* "array" (of n elements), "object" or "none"; count is -1 when the body  *)
(* has none; message and stack tell whether the body carries them.         *)
NoResponse ==
  [status |-> 0, success |-> FALSE, error |-> "", message |-> "",
   data |-> "none", n |-> 0, count |-> -1, stack |-> FALSE]

Ok(status) == [NoResponse EXCEPT !.status = status, !.success = TRUE]

Refusal(status, error) == [NoResponse EXCEPT !.status = status, !.error = error]

(* apiKeyAuth: the response it sends, or NoResponse when it calls next() *)
apiKeyAuthAcceptsAll(req) == NoResponse

apiKeyAuth(req) ==
  IF presentedKey(req) = "" THEN Refusal(401, "API key is required")
  ELSE IF presentedKey(req) # configApiKey THEN Refusal(403, "Invalid API key")
  ELSE NoResponse

ProtectedRoutes ==
  { "GET /api/auth/token", "GET /api/auth/validate", "GET /api/lists",
    "GET /api/items/smart-search", "GET /api/items/search/type",
    "GET /api/items/search/author", "POST /api/items/search/advanced",
    "GET /api/items/search", "GET /api/items/recent",
    "GET /api/items/statistics", "GET /api/items/folder/:path",
    "GET /api/items/:listTitle/items", "GET /api/items/:listTitle/items/:itemId",
    "POST /api/items/:listTitle/items", "PUT /api/items/:listTitle/items/:itemId",
    "DELETE /api/items/:listTitle/items/:itemId" }

(* The routes that need a parameter, and those that need a body *)
NeedsParam ==
  [r \in ProtectedRoutes |->
     CASE r = "GET /api/items/smart-search" -> "Query parameter is required"
       [] r = "GET /api/items/search/type" -> "File type parameter is required"
       [] r = "GET /api/items/search/author" -> "Author parameter is required"
       [] r = "GET /api/items/search" -> "Keyword parameter is required"
       [] r = "GET /api/items/folder/:path" -> "Folder path is required"
       [] OTHER -> ""]

NeedsBody ==
  [r \in ProtectedRoutes |->
     CASE r = "POST /api/items/search/advanced" ->
            "Search criteria are required in request body"
       [] r = "POST /api/items/:listTitle/items" -> "Request body is empty"
       [] r = "PUT /api/items/:listTitle/items/:itemId" -> "Request body is empty"
       [] OTHER -> ""]

(* The validation at the head of a controller: the 400 it answers, or      *)
(* NoResponse when it goes on to the service                               *)
ValidationSkipped(req) == NoResponse

Validation(req) ==
  IF NeedsParam[req.route] # "" /\ req.param = ""
    THEN Refusal(400, NeedsParam[req.route])
  ELSE IF NeedsBody[req.route] # "" /\ req.body = 0
    THEN Refusal(400, NeedsBody[req.route])
  ELSE NoResponse

(* parseInt of a parameter: its leading digits; NaN, falsy like 0 wherever *)
(* the result is used, is 0                                                *)
parseIntParam(s) == parseInt(SubSeq(s, 1, DigitRunEnd(s, 1)))

(* The criteria of an advanced search with a body *)
BodyCriteria == [NoCriteria EXCEPT !.fileType = "pdf"]

(* The service call a controller delegates to: the operation and its       *)
(* arguments.  thisYear is the year of the server clock.                   *)
Delegated(req, thisYear) ==
  LET r == req.route
      itemOf == [OnList EXCEPT !.item = parseIntParam(req.param)]
  IN CASE r = "GET /api/auth/token" -> << "getToken", NoArgs >>
       [] r = "GET /api/auth/validate" -> << "validateToken", NoArgs >>
       [] r = "GET /api/lists" -> << "getLists", NoArgs >>
       [] r = "GET /api/items/smart-search" ->
            << "getAllFiles", smartSearch(req.param, thisYear) >>
       [] r = "GET /api/items/search/type" ->
            << "getAllFiles", searchFilesByType(req.param) >>
       [] r = "GET /api/items/search/author" ->
            << "getAllFiles", searchFilesByAuthor(req.param) >>
       [] r = "POST /api/items/search/advanced" ->
            << "getAllFiles", searchMultiCriteria(BodyCriteria, Library) >>
       [] r = "GET /api/items/search" ->
            << "getAllFiles", searchByKeyword(req.param) >>
       [] r = "GET /api/items/recent" ->
            << "getAllFiles",
               getRecentFiles(IF req.param = "" THEN 10
                              ELSE parseIntParam(req.param)) >>
       [] r = "GET /api/items/statistics" -> << "getAllFiles", getFileStatistics >>
       [] r = "GET /api/items/folder/:path" ->
            << "getAllFiles", getFilesInFolder(req.param) >>
       [] r = "GET /api/items/:listTitle/items" ->
            << "getListItems",
               [OnList EXCEPT !.opts.top = IF req.param = "" THEN 0
                                           ELSE parseIntParam(req.param)] >>
       [] r = "GET /api/items/:listTitle/items/:itemId" -> << "getItemById", itemOf >>
       [] r = "POST /api/items/:listTitle/items" -> << "createItem", OnList >>
       [] r = "PUT /api/items/:listTitle/items/:itemId" -> << "updateItem", itemOf >>
       [] r = "DELETE /api/items/:listTitle/items/:itemId" -> << "deleteItem", itemOf >>

(* What the pipeline answers before any service call: /health answers      *)
(* without a key, apiKeyAuth refuses, a controller finds a parameter       *)
(* missing; NoResponse when the controller delegates                       *)
AnsweredAtOnce(req) ==
  IF req.route = "GET /health" THEN Ok(200)
  ELSE IF apiKeyAuth(req) # NoResponse THEN apiKeyAuth(req)
  ELSE Validation(req)

(* The error a failed call throws to its controller: err.response.status   *)
(* (0: the error has no response, as the Error of getAccessToken or a      *)
(* request that got no answer), err.status and err.message.  axios builds  *)
(* differ in whether the error object itself carries the status of the     *)
(* response.                                                               *)
AxiosBuilds == {"error.status set", "error.status unset"}

Thrown(cl, build) ==
  [response |-> cl.err.status,
   status |-> IF build = "error.status set" THEN cl.err.status ELSE 0,
   message |-> cl.err.msg]

(* process.env.NODE_ENV; "" when it is not set *)
NodeEnvs == {"development", "production", ""}

errorHandlerAlways500(err, nodeEnv) ==
  [NoResponse EXCEPT !.status = 500, !.error = "Internal server error"]

errorHandler(err, nodeEnv) ==
  IF err.response = 401
    THEN [Refusal(401, "SharePoint authentication failed") EXCEPT
            !.message = "Token may be expired or invalid"]
  ELSE IF err.response = 403
    THEN [Refusal(403, "Access denied") EXCEPT
            !.message = "Insufficient permissions to access SharePoint resource"]
  ELSE IF err.response = 404
    THEN [Refusal(404, "Resource not found") EXCEPT
            !.message = "The requested SharePoint resource does not exist"]
  ELSE [Refusal(IF err.status # 0 THEN err.status ELSE 500,
                IF err.message # "" THEN err.message ELSE "Internal server error")
          EXCEPT !.stack = (nodeEnv = "development")]

(* data.d.results and its length *)
Results(val) == [Ok(200) EXCEPT !.data = "array", !.n = val.n, !.count = val.n]

(* Every answer taken to have d.results *)
ResultsOnly(cl) == Results(cl.retVal)

(* data.d?.results || data, data.d?.results?.length || 0: the statistics   *)
(* that smartSearch returns have no d                                      *)
ResultsOrData(cl) ==
  IF cl.a.intent.type = "statistics"
  THEN [Ok(200) EXCEPT !.data = "object", !.count = 0]
  ELSE Results(cl.retVal)

(* res.json(...) of a controller after its service call has returned *)
Success(cl) ==
  LET r == cl.a.req.route
  IN CASE r = "GET /api/auth/token" -> [Ok(200) EXCEPT !.data = "object"]
       [] r = "GET /api/auth/validate" ->
            [Ok(200) EXCEPT !.message = "Token is valid", !.data = "object"]
       [] r \in {"GET /api/lists", "GET /api/items/:listTitle/items/:itemId"} ->
            [Ok(200) EXCEPT !.data = "object"]
       [] r = "POST /api/items/:listTitle/items" ->
            [Ok(201) EXCEPT !.message = "Item created successfully",
                            !.data = "object"]
       [] r = "PUT /api/items/:listTitle/items/:itemId" ->
            [Ok(200) EXCEPT !.message = "Item updated successfully"]
       [] r = "DELETE /api/items/:listTitle/items/:itemId" ->
            [Ok(200) EXCEPT !.message = "Item deleted successfully"]
       [] r = "GET /api/items/statistics" -> Ok(200)
       [] r \in {"GET /api/items/smart-search", "POST /api/items/search/advanced",
                 "GET /api/items/search"} -> ResultsOrData(cl)
       [] OTHER -> Results(cl.retVal)

(* The catch block of a controller: next(error), but validateToken answers *)
(* itself                                                                  *)
Failure(cl, nodeEnv, build) ==
  IF cl.a.req.route = "GET /api/auth/validate"
  THEN [NoResponse EXCEPT !.status = 401, !.data = "object",
                          !.message = "Token is invalid or expired"]
  ELSE errorHandler(Thrown(cl, build), nodeEnv)

(* The response to the request of a call; NoResponse while it is awaited *)
Response(cl, nodeEnv, build) ==
  IF cl.a.req = NoReq THEN NoResponse
  ELSE IF cl.op = "none" THEN AnsweredAtOnce(cl.a.req)
  ELSE IF cl.pc = "failed" THEN Failure(cl, nodeEnv, build)
  ELSE IF cl.pc = "done" THEN Success(cl)
  ELSE NoResponse

(* A request arrives at slot c and runs to its first await or to its       *)
(* response.                                                               *)
Request(c, req, thisYear) ==
  IF AnsweredAtOnce(req) # NoResponse
  THEN /\ calls[c].pc = "idle"
       /\ \A d \in 1..(c - 1) : calls[d].pc # "idle"
       /\ calls' = [calls EXCEPT ![c] = [IdleCall EXCEPT !.a.req = req,
                                                         !.pc = "done"]]
       /\ UNCHANGED <<tokenCache, dataCache, tokens, upVer, lastDone, ticks,
                      flushes>>
  ELSE LET g == Delegated(req, thisYear)
       IN Start(c, g[1], [g[2] EXCEPT !.req = req])

----------------------------------------------------------------------------
(* Requests at the gateway: every route, with its parameter or body        *)
(* present and absent, under every way of presenting a key                 *)

KeyHeaders ==
  { [xApiKey |-> "", authorization |-> ""],
    [xApiKey |-> configApiKey, authorization |-> ""],
    [xApiKey |-> "", authorization |-> "Bearer " \o configApiKey],
    [xApiKey |-> "", authorization |-> configApiKey],
    [xApiKey |-> "", authorization |-> "Bearer "],
    [xApiKey |-> "", authorization |-> "Bearer k-2"],
    [xApiKey |-> "k-2", authorization |-> "Bearer " \o configApiKey] }

(* The values of the parameter of each route *)
ParamsOf(r) ==
  CASE r = "GET /api/items/smart-search" -> {"", "Budget", "how many files"}
    [] r = "GET /api/items/search/type" -> {"", ".pdf"}
    [] r = "GET /api/items/search/author" -> {"", "Nicole Stirling"}
    [] r = "GET /api/items/search" -> {"", "budget"}
    [] r = "GET /api/items/recent" -> {"", "3"}
    [] r = "GET /api/items/folder/:path" -> {"", "Templates"}
    [] r = "GET /api/items/:listTitle/items" -> {"", "5"}
    [] r \in {"GET /api/items/:listTitle/items/:itemId",
              "PUT /api/items/:listTitle/items/:itemId",
              "DELETE /api/items/:listTitle/items/:itemId"} -> {"7"}
    [] OTHER -> {""}

BodiesOf(r) ==
  IF r \in {"POST /api/items/search/advanced", "POST /api/items/:listTitle/items",
            "PUT /api/items/:listTitle/items/:itemId"}
  THEN {0, 1} ELSE {0}

Routes == ProtectedRoutes \cup {"GET /health"}

GateRequest(r, k, p, b) ==
  [route |-> r, xApiKey |-> k.xApiKey, authorization |-> k.authorization,
   param |-> p, body |-> b]

(* The calls that a controller delegated to the service *)
Delegations == {c \in Slots : calls[c].op # "none"}

(* The requests that have arrived *)
Arrived == {c \in Slots : calls[c].a.req # NoReq}

(* At most MaxDelegated requests reach the service; requests that are      *)
(* answered at once follow them.                                           *)
MaxDelegated == 1

RequestArrives ==
  \E c \in SearchSlots :
    /\ calls[c].pc = "idle"
    /\ InFlight = {}
    /\ c > 1 => Delegations # {}
    /\ \E r \in Routes, k \in KeyHeaders :
         \E p \in ParamsOf(r), b \in BodiesOf(r) :
           LET q == GateRequest(r, k, p, b)
           IN /\ AnsweredAtOnce(q) = NoResponse =>
                   Cardinality(Delegations) < MaxDelegated
              /\ \E y \in ClockYears : Request(c, q, y)

NextGate ==
  \/ RequestArrives
  \/ Answers

SpecGate == Init /\ [][NextGate]_vars

(* The key a request presents, in the words of C14: the X-API-Key header,  *)
(* else the Authorization header without its Bearer prefix; "" is no key   *)
KeyPresented(req) ==
  IF req.xApiKey # "" THEN req.xApiKey
  ELSE IF StartsAt(req.authorization, 1, "Bearer ")
    THEN SubSeq(req.authorization, 8, Len(req.authorization))
  ELSE req.authorization

Protected(c) == c \in Arrived /\ calls[c].a.req.route \in ProtectedRoutes

(* The handler of the route has run: it delegated or refused the request   *)
(* with its 400                                                            *)
HandlerRan(c) ==
  \/ calls[c].op # "none"
  \/ \A e \in NodeEnvs, b \in AxiosBuilds :
       Response(calls[c], e, b).status \notin {0, 401, 403}

(* What C14 asks of every state *)
C14_State ==
  \A c \in Arrived : \A e \in NodeEnvs, b \in AxiosBuilds :
    LET req == calls[c].a.req
        res == Response(calls[c], e, b)
    IN /\ Protected(c) /\ HandlerRan(c) => KeyPresented(req) = configApiKey
       /\ Protected(c) /\ KeyPresented(req) = "" =>
            res = Refusal(401, "API key is required")
       /\ Protected(c) /\ KeyPresented(req) \notin {"", configApiKey} =>
            res = Refusal(403, "Invalid API key")
       /\ Protected(c) /\ KeyPresented(req) # configApiKey =>
            calls[c].h.nTok = 0 /\ calls[c].h.nData = 0
       /\ req.route = "GET /health" => res.status = 200 /\ res.success

(* What C14 asks of every step *)
C14_Step ==
  \A c \in Slots :
    /\ calls[c].a.req = NoReq
    /\ calls'[c].a.req # NoReq
    /\ calls'[c].a.req.route \in ProtectedRoutes
    /\ KeyPresented(calls'[c].a.req) # configApiKey
    => /\ tokenCache' = tokenCache
       /\ dataCache' = dataCache
       /\ tokens' = tokens
       /\ upVer' = upVer
       /\ calls'[c].pc = "done"
       /\ \A d \in Slots \ {c} : calls'[d] = calls[d]

(* C14: the handler of a route under /api/auth, /api/lists or /api/items   *)
(* runs only for a request whose presented key (X-API-Key, else            *)
(* Authorization without 'Bearer ') is the configured key; a request with  *)
(* no key is answered 401 {success:false, error:'API key is required'}, a  *)
(* request with another key 403 {success:false, error:'Invalid API key'},  *)
(* in both cases without a token request, an upstream request or a change  *)
(* of a cache; GET /health is answered without a key.                      *)
C14_OnlyTheConfiguredKeyReachesAHandler == [](C14_State) /\ [][C14_Step]_vars

(* C14 witness: after a request with the key has filled the data cache, a  *)
(* request with another key in X-API-Key and the right one in              *)
(* Authorization was refused with 403 and the cache is as it was.          *)
C14_Witness ==
  /\ calls[1].op = "getItemById" /\ calls[1].pc = "done"
  /\ calls[1].a.req.authorization = "Bearer " \o configApiKey
  /\ NodeCacheHas(dataCache, ItemKey(calls[1].a))
  /\ calls[2].a.req.xApiKey = "k-2"
  /\ calls[2].a.req.authorization = "Bearer " \o configApiKey
  /\ calls[2].a.req.route = "PUT /api/items/:listTitle/items/:itemId"
  /\ Response(calls[2], "production", "error.status set").status = 403
  /\ calls[2].op = "none"

----------------------------------------------------------------------------
(* Failures at the gateway: one request with the key, whose token request  *)
(* or whose upstream request may fail; status 0 is a request that got no   *)
(* response at all                                                         *)

ErrorStatuses == {0, 400, 401, 403, 404}

WithKey == [xApiKey |-> configApiKey, authorization |-> ""]

RequestWithKeyArrives ==
  \E r \in ProtectedRoutes : \E p \in ParamsOf(r), b \in BodiesOf(r) :
    \E y \in ClockYears : Request(1, GateRequest(r, WithKey, p, b), y)

NextErrors ==
  \/ RequestWithKeyArrives
  \/ Answers
  \/ \E c \in Slots : TokenEndpointRefuses(c)
  \/ \E c \in Slots : \E status \in ErrorStatuses : UpstreamRejects(c, status)

SpecErrors == Init /\ [][NextErrors]_vars

(* The calls whose error went to errorHandler *)
Translated ==
  {c \in Slots : /\ calls[c].pc = "failed"
                 /\ calls[c].a.req.route # "GET /api/auth/validate"}

(* C15 as stated: upstream status 401, 403 and 404 give the same HTTP      *)
(* status, every other error gives HTTP 500, the message of the error is   *)
(* in the body only outside production, and success is false.              *)
C15_Other500MessageOutsideProduction ==
  \A c \in Translated : \A e \in NodeEnvs, b \in AxiosBuilds :
    LET res == Response(calls[c], e, b)
    IN /\ ~ res.success
       /\ res.status = IF calls[c].err.status \in {401, 403, 404}
                       THEN calls[c].err.status ELSE 500
       /\ calls[c].err.status \notin {401, 403, 404} /\ e = "production" =>
            res.error # calls[c].err.msg

(* C15, amended: upstream status 401, 403 and 404 give the same HTTP       *)
(* status with a fixed error text; every other error gives the status that *)
(* the error object itself carries, 500 when it carries none (the Error of *)
(* a failed token request, a request without response), with the message   *)
(* of the error as the error field in every mode; only the stack is        *)
(* added, and only when NODE_ENV is development; success is false.         *)
C15_OtherErrorsKeepTheirMessage ==
  \A c \in Translated : \A e \in NodeEnvs, b \in AxiosBuilds :
    LET res == Response(calls[c], e, b)
        up == calls[c].err.status
    IN /\ ~ res.success
       /\ up = 401 => res.status = 401 /\ res.error = "SharePoint authentication failed"
       /\ up = 403 => res.status = 403 /\ res.error = "Access denied"
       /\ up = 404 => res.status = 404 /\ res.error = "Resource not found"
       /\ up \in {401, 403, 404} => ~ res.stack
       /\ up \notin {401, 403, 404} =>
            /\ res.status = IF up # 0 /\ b = "error.status set" THEN up ELSE 500
            /\ res.error = calls[c].err.msg
            /\ res.error # ""
            /\ res.stack <=> e = "development"
       /\ calls[c].h.nData = 0 => res.status = 500
                                  /\ res.error = "Token acquisition failed"

(* C15 witness: an upstream request was rejected with status 400, and the  *)
(* response in production carries the message of the error.                *)
C15_Witness ==
  \E c \in Translated :
    /\ calls[c].err.status = 400
    /\ calls[c].op = "updateItem"
    /\ Response(calls[c], "production", "error.status unset").status = 500
    /\ Response(calls[c], "production", "error.status unset").error = "Request failed"

----------------------------------------------------------------------------
(* The steps of one gateway request: requests with the key, one after the  *)
(* other, whose token request or upstream requests may fail at any step,   *)
(* while time passes                                                       *)

StepRoutes ==
  { "GET /api/auth/validate", "GET /api/items/:listTitle/items/:itemId",
    "POST /api/items/:listTitle/items", "PUT /api/items/:listTitle/items/:itemId",
    "DELETE /api/items/:listTitle/items/:itemId", "GET /api/items/search" }

StepRequestArrives ==
  \E c \in SearchSlots :
    /\ calls[c].pc = "idle"
    /\ InFlight = {}
    /\ \E r \in StepRoutes : \E p \in ParamsOf(r) \ {""} :
         \E y \in ClockYears : Request(c, GateRequest(r, WithKey, p, 1), y)

NextSteps ==
  \/ StepRequestArrives
  \/ Answers
  \/ Failures
  \/ \E d \in TickSteps : Tick(d)

SpecSteps == Init /\ [][NextSteps]_vars

(* The steps of the program of a call up to the one it is at *)
StepsUpTo(cl, kind) ==
  {i \in 1..Len(Program(cl.op)) : i <= cl.step /\ Program(cl.op)[i].k = kind}

(* What C16 asks of every state *)
C16_State ==
  \A c \in Delegations :
    LET cl == calls[c]
    IN /\ cl.h.nTok <= 1
       /\ cl.h.tries <= 1
       /\ Len(cl.h.miss) + Len(cl.h.hits) <= Cardinality(StepsUpTo(cl, "read"))
       /\ cl.h.nData <= Len(cl.h.miss) + Cardinality(StepsUpTo(cl, "req"))
       /\ cl.pc = "failed" =>
            /\ cl.err.thrown
            /\ \A e \in NodeEnvs, b \in AxiosBuilds :
                 /\ ~ Response(cl, e, b).success
                 /\ Response(cl, e, b).status >= 400

(* What C16 asks of every step *)
C16_Step ==
  \A c \in Slots :
    /\ calls[c].pc \in {"tokenResp", "dataResp"} /\ ~ calls[c].net.ok
       /\ calls'[c].pc # calls[c].pc =>
         /\ calls'[c].pc = "failed"
         /\ calls'[c].step = calls[c].step
         /\ calls'[c].h.nTok = calls[c].h.nTok
         /\ calls'[c].h.nData = calls[c].h.nData
    /\ calls[c].pc = "failed" =>
         /\ calls'[c].pc = "failed"
         /\ calls'[c].step = calls[c].step
         /\ calls'[c].h.nTok = calls[c].h.nTok
         /\ calls'[c].h.nData = calls[c].h.nData

(* C16: nothing is retried and no error is swallowed: within one gateway   *)
(* request the token request and the request of each step (metadata read,  *)
(* item read, form digest, write, query) are sent at most once, and when   *)
(* the answer to one of them is a failure the request ends in that step    *)
(* with a failure response (success:false) and sends nothing more.         *)
C16_NoRetryFailureEndsTheRequest == [](C16_State) /\ [][C16_Step]_vars

(* C16 witness: an update whose list read was served from the cache and    *)
(* whose form digest request was rejected has failed after two requests,   *)
(* without a write.                                                        *)
C16_Witness ==
  \E c \in Delegations :
    /\ calls[c].op = "updateItem"
    /\ calls[c].pc = "failed"
    /\ calls[c].step = 3
    /\ Len(calls[c].h.hits) = 1
    /\ calls[c].h.nData = 2
    /\ calls[c].err.status = 401

----------------------------------------------------------------------------
(* The list-style responses *)

ListStyleRoutes ==
  { "GET /api/items/:listTitle/items", "GET /api/items/search/type",
    "GET /api/items/search/author", "GET /api/items/recent",
    "GET /api/items/folder/:path", "GET /api/items/smart-search",
    "POST /api/items/search/advanced", "GET /api/items/search" }

(* The list-style requests that were answered with success *)
Listed ==
  {c \in Delegations : /\ calls[c].pc = "done"
                       /\ calls[c].a.req.route \in ListStyleRoutes}

(* getItems forwards top as $top, and SharePoint returns no more *)
TopForwarded(cl) ==
  cl.a.req.route = "GET /api/items/:listTitle/items" /\ cl.a.req.param = "5" =>
    /\ cl.retVal.ep = "/_api/web/lists/getbytitle('Documents')/items?$top=5"
    /\ cl.retVal.n <= 5

(* C17 as stated: every successful list-style response is                  *)
(* {success:true, data, count} with data an array and count its length;    *)
(* getItems forwards top as $top, so that top=5 gives at most 5 elements.  *)
C17_CountIsTheLengthOfData ==
  \A c \in Listed : \A e \in NodeEnvs, b \in AxiosBuilds :
    LET res == Response(calls[c], e, b)
    IN /\ res.success /\ res.status = 200
       /\ res.data = "array"
       /\ res.count = res.n
       /\ res.n = calls[c].retVal.n
       /\ TopForwarded(calls[c])

(* C17, amended: every successful list-style response is                   *)
(* {success:true, data, count}; data is the d.results array of the         *)
(* upstream answer and count its length, except that a smartSearch which   *)
(* is classified as statistics returns the statistics object as data with  *)
(* count 0; getItems forwards top as $top, so that top=5 gives at most 5   *)
(* elements.                                                               *)
C17_CountIsTheLengthOfResults ==
  \A c \in Listed : \A e \in NodeEnvs, b \in AxiosBuilds :
    LET res == Response(calls[c], e, b)
        statistics == /\ calls[c].a.req.route = "GET /api/items/smart-search"
                      /\ calls[c].a.intent.type = "statistics"
    IN /\ res.success /\ res.status = 200
       /\ res.count >= 0
       /\ ~ statistics => /\ res.data = "array"
                          /\ res.count = res.n
                          /\ res.n = calls[c].retVal.n
       /\ statistics => res.data = "object" /\ res.count = 0
       /\ TopForwarded(calls[c])

(* C17 witness: the smart search "how many files" was answered with the    *)
(* statistics of a library that holds files, and count 0.                  *)
C17_Witness ==
  \E c \in Listed :
    /\ calls[c].a.req.param = "how many files"
    /\ calls[c].retVal.n > 0
    /\ Response(calls[c], "production", "error.status set").data = "object"
    /\ Response(calls[c], "production", "error.status set").count = 0

----------------------------------------------------------------------------
(* Requests that lack what their route requires, in the words of C18 *)
LacksRequired(req) ==
  \/ /\ req.route \in {"GET /api/items/smart-search", "GET /api/items/search/type",
                       "GET /api/items/search/author", "GET /api/items/search",
                       "GET /api/items/folder/:path"}
     /\ req.param = ""
  \/ /\ req.route \in {"POST /api/items/:listTitle/items",
                       "PUT /api/items/:listTitle/items/:itemId",
                       "POST /api/items/search/advanced"}
     /\ req.body = 0

(* What C18 asks of every state *)
C18_State ==
  \A c \in Arrived : \A e \in NodeEnvs, b \in AxiosBuilds :
    LET req == calls[c].a.req
        res == Response(calls[c], e, b)
    IN /\ KeyPresented(req) = configApiKey /\ LacksRequired(req) =>
            /\ res.status = 400
            /\ ~ res.success
            /\ res.error # ""
            /\ calls[c].op = "none"
            /\ calls[c].h.nTok = 0 /\ calls[c].h.nData = 0
       /\ res.status = 400 => LacksRequired(req)

(* What C18 asks of every step *)
C18_Step ==
  \A c \in Slots :
    /\ calls[c].a.req = NoReq
    /\ calls'[c].a.req # NoReq
    /\ KeyPresented(calls'[c].a.req) = configApiKey
    /\ LacksRequired(calls'[c].a.req)
    => /\ tokenCache' = tokenCache
       /\ dataCache' = dataCache
       /\ tokens' = tokens
       /\ upVer' = upVer
       /\ calls'[c].pc = "done"
       /\ \A d \in Slots \ {c} : calls'[d] = calls[d]

----------------------------------------------------------------------------
(* The writes *)

WriteCalls == {c \in Delegations : calls[c].op \in WriteOps}

(* The order of the steps of each write operation, in the words of C19 *)
OrderOf(op) ==
  CASE op = "createItem" -> << "getListByTitle", "contextinfo", "write", "inval" >>
    [] op = "updateItem" ->
         << "getListByTitle", "getItemById", "contextinfo", "write", "inval" >>
    [] op = "deleteItem" -> << "getItemById", "contextinfo", "write", "inval" >>

Position(seq, x) == Least({i \in 1..Len(seq) : seq[i] = x})

(* The write request of a call has been sent *)
WriteSent(cl) ==
  LET w == Position(OrderOf(cl.op), "write")
  IN \/ cl.step > w
     \/ cl.step = w /\ cl.pc \in {"dataWait", "dataResp"}
     \/ cl.step = w /\ cl.pc = "failed" /\ cl.err.msg = "Request failed"

(* What C19 asks of every state *)
C19_State ==
  \A c \in WriteCalls :
    LET cl == calls[c]
        order == cl.h.order
    IN /\ Len(order) <= Len(OrderOf(cl.op))
       /\ order = SubSeq(OrderOf(cl.op), 1, Len(order))
       /\ WriteSent(cl) =>
            /\ cl.h.sent.digest # NoDigest
            /\ cl.h.sent.digest.by = c
            /\ cl.h.sent.digest.seq < cl.h.nData
            /\ cl.op \in {"updateItem", "deleteItem"} => cl.h.sent.ifMatch # ""
       /\ ~ WriteSent(cl) => cl.h.sent = NoHeaders
       /\ (\E i \in 1..Len(order) : order[i] = "inval") => cl.h.wrote
       /\ cl.pc = "done" => cl.h.wrote /\ order = OrderOf(cl.op)

(* What C19 asks of every step: an entry leaves the data cache, its time   *)
(* not being over, only in the step in which the answer to the write of a  *)
(* call arrives and is a success                                           *)
C19_Step ==
  \A k \in DOMAIN dataCache :
    k \notin DOMAIN dataCache' /\ ticks' = ticks =>
      \E c \in WriteCalls :
        /\ calls[c].pc = "dataResp"
        /\ calls[c].net.ok
        /\ IsWrite(calls[c])
        /\ \E i \in DOMAIN InvalidatedKeys(calls[c].op, calls[c].a) :
             k = InvalidatedKeys(calls[c].op, calls[c].a)[i]
        /\ calls'[c].pc = "done"

(* C19: every write that createItem, updateItem or deleteItem sends        *)
(* carries the X-RequestDigest of a /_api/contextinfo call made earlier in *)
(* the same operation; every update and delete carries an IF-MATCH; the    *)
(* steps of updateItem are list metadata, item read, form digest, write,   *)
(* cache invalidation in this order; the invalidation happens only after   *)
(* the write has succeeded.                                                *)
C19_WritesCarryTheirDigest == [](C19_State) /\ [][C19_Step]_vars

(* C19 witness: an update was completed; its write carried the digest      *)
(* that its own third request obtained and the etag of the item it had     *)
(* read, and the entry of the item is gone from the cache.                 *)
C19_Witness ==
  \E c \in WriteCalls :
    /\ calls[c].op = "updateItem"
    /\ calls[c].pc = "done"
    /\ calls[c].h.nData = 4
    /\ calls[c].h.sent.digest = [by |-> c, seq |-> 3]
    /\ calls[c].h.sent.ifMatch = "\"1\""
    /\ calls[c].h.sent.method = "MERGE"
    /\ ~ NodeCacheHas(dataCache, ItemKey(calls[c].a))

----------------------------------------------------------------------------
(* A read of an item and a write to it at the same time *)

SameItem(c, w) ==
  calls[c].a.list = calls[w].a.list /\ calls[c].a.item = calls[w].a.item

(* Two calls were in progress at the same time: neither was started after  *)
(* the other had completed                                                 *)
Overlapped(c, w) == c # w /\ c \notin calls[w].h.after /\ w \notin calls[c].h.after

(* The completed getItemById calls and the completed successful updates    *)
(* and deletes of the same item that overlapped them                       *)
ReadWritePairs ==
  { p \in Slots \X Slots :
      /\ calls[p[1]].op = "getItemById" /\ calls[p[1]].pc = "done"
      /\ calls[p[2]].op \in {"updateItem", "deleteItem"}
      /\ calls[p[2]].pc = "done" /\ calls[p[2]].h.wrote
      /\ SameItem(p[1], p[2])
      /\ Overlapped(p[1], p[2]) }

(* C20 as stated: once a getItemById and a successful updateItem or        *)
(* deleteItem of the same item that ran at the same time have both         *)
(* completed, the data cache holds no entry item_<listTitle>_<itemId> that *)
(* shows the item as it was before the write.                              *)
C20_NoPreWriteEntryAfterBoth ==
  \A p \in ReadWritePairs :
    LET key == ItemKey(calls[p[1]].a)
    IN NodeCacheHas(dataCache, key) =>
         NodeCacheGet(dataCache, key).ver >= calls[p[2]].retVal.ver

----------------------------------------------------------------------------
(* The etag of a write *)

(* Reads, an update and a delete of one item; SharePoint may answer a read *)
(* of the item without an etag                                             *)
EtagCalls ==
  { <<"getItemById", OnItem>>, <<"updateItem", OnItem>>, <<"deleteItem", OnItem>> }

NextEtag ==
  \/ Calls(EtagCalls, MaxOverlap)
  \/ Answers
  \/ \E c \in Slots : UpstreamAnswersWithoutEtag(c)
  \/ Tick(dataTTL)

SpecEtag == Init /\ [][NextEtag]_vars

(* The updates and deletes, and the step at which they read the item *)
EtagWrites == {c \in Slots : calls[c].op \in {"updateItem", "deleteItem"}}

ItemReadStep(cl) == Position(OrderOf(cl.op), "getItemById")

(* The entries of the data cache from which a call was served its item *)
ItemHits(cl) ==
  {i \in 1..Len(cl.h.hits) : cl.h.hits[i].key = ItemKey(cl.a)}

Missed(cl, key) == \E i \in 1..Len(cl.h.miss) : cl.h.miss[i] = key

(* The IF-MATCH that goes with an etag *)
IfMatchOf(etag) == IF etag = "" THEN "*" ELSE etag

(* What C21 asks of every state *)
C21_State ==
  \A c \in EtagWrites :
    LET cl == calls[c]
    IN /\ \A i \in ItemHits(cl) :
            /\ ~ Missed(cl, ItemKey(cl.a))
            /\ cl.loc.etag = Etag(cl.h.hits[i].v)
            /\ WriteSent(cl) => cl.h.sent.ifMatch = IfMatchOf(Etag(cl.h.hits[i].v))
       /\ WriteSent(cl) =>
            /\ cl.h.sent.ifMatch = IfMatchOf(cl.loc.etag)
            /\ cl.h.sent.ifMatch = "*" => cl.loc.etag = ""
            /\ ItemHits(cl) = {} => Missed(cl, ItemKey(cl.a))

(* What C21 asks of every step: the etag of an operation is that of the    *)
(* answer to its own read of the item, and stays what it is afterwards     *)
C21_Step ==
  \A c \in Slots :
    (calls[c].op \in {"updateItem", "deleteItem"} /\ calls'[c].op = calls[c].op) =>
      LET cl == calls[c]
      IN /\ (cl.step = ItemReadStep(cl) /\ cl.pc = "dataResp" /\ cl.net.ok
             /\ calls'[c].step > cl.step) =>
               calls'[c].loc.etag = Etag(cl.net.val)
         /\ cl.step > ItemReadStep(cl) => calls'[c].loc.etag = cl.loc.etag

(* C21: the IF-MATCH that updateItem and deleteItem send is the etag of    *)
(* the item as their own getItemById step returned it; when the data cache *)
(* has an entry of the item that step is served from it and the operation  *)
(* sends no read of the item upstream, so that the etag may be that of a   *)
(* version older than the current one of SharePoint while the entry lives; *)
(* the wildcard * is sent only when the item read has no etag.             *)
C21_IfMatchIsTheEtagOfTheOwnItemRead == [](C21_State) /\ [][C21_Step]_vars

(* C21 witness: a write is on its way whose item came from an entry of the *)
(* data cache at the end of its time; SharePoint has a newer version of    *)
(* the item than the one whose etag goes as IF-MATCH, and the operation    *)
(* has sent no read of the item.                                           *)
C21_Witness ==
  \E c \in EtagWrites : \E i \in ItemHits(calls[c]) :
    /\ calls[c].pc = "dataWait" /\ IsWrite(calls[c])
    /\ calls[c].h.hits[i].v.ver < upVer
    /\ calls[c].h.hits[i].left = 0
    /\ calls[c].h.sent.ifMatch = "\"1\""
    /\ ~ Missed(calls[c], ItemKey(calls[c].a))

(* The wildcard has been sent: the item read had no etag *)
WildcardSent ==
  \E c \in EtagWrites :
    /\ WriteSent(calls[c])
    /\ calls[c].h.sent.ifMatch = "*"
    /\ calls[c].loc.etag = ""

----------------------------------------------------------------------------
(* The token of a request after a rejected one *)

(* requestConfig.headers.Authorization of the request that makeRequest     *)
(* sends for the current step of a call, 0 when the request has no such    *)
(* header.  requestConfig is { method, url, headers: { Authorization, ..., *)
(* ...options.headers }, ...options }: the options of a write have a       *)
(* headers property of their own, which takes the place of the headers     *)
(* built before it; the reads and the form digest pass no options.         *)
Authorization(cl) == IF IsWrite(cl) THEN 0 ELSE cl.tok

(* The calls whose data request SharePoint has rejected *)
RejectedCalls ==
  {f \in Slots : calls[f].pc = "failed" /\ calls[f].err.msg = "Request failed"}

(* The token cache still holds the token of call f *)
TokenStillCached(f) ==
  /\ NodeCacheHas(tokenCache, "access_token")
  /\ NodeCacheGet(tokenCache, "access_token") = calls[f].tok

(* The requests made after call f failed, waiting for their answer *)
LaterRequests(f) == {c \in Slots : c > f /\ calls[c].pc = "dataWait"}

(* C22 as stated: a data request that has failed, be it with 401, leaves   *)
(* the token cache as it is, so that every later request made while the    *)
(* token is in the cache carries the token that was rejected and the call  *)
(* that makes it sends nothing to the token endpoint.                      *)
C22_LaterRequestsSendTheRejectedToken ==
  \A f \in RejectedCalls : \A c \in LaterRequests(f) :
    TokenStillCached(f) =>
      /\ Authorization(calls[c]) = calls[f].tok
      /\ calls[c].h.nTok = 0

(* What holds of the token cache: the step in which a data request fails   *)
(* leaves it as it is, and a later call holds the token of the cache and   *)
(* has asked the token endpoint for nothing.                               *)
RejectedTokenKept ==
  /\ [](\A f \in RejectedCalls : \A c \in LaterRequests(f) :
          TokenStillCached(f) =>
            calls[c].tok = calls[f].tok /\ calls[c].h.nTok = 0)
  /\ [][\A c \in Slots :
          (calls[c].pc = "dataResp" /\ calls'[c].pc = "failed") =>
            tokenCache' = tokenCache]_vars

====
